---- MODULE Spec2Model ----
(***************************************************************************)
(* A model of the embedding codec, the store loader, the similarity engine *)
(* and the keyword fallback ranker of hs-code-finder, with the search hook *)
(* that drives them.                                                       *)
(*                                                                         *)
(* Strings are sequences of Unicode code points, byte buffers sequences of *)
(* 0..255 (buffer offset o is index o+1).  Vector components are integers, *)
(* a subset of the doubles the program handles.                            *)
(***************************************************************************)
EXTENDS Integers, Sequences, FiniteSets, TLC

(***************************************************************************)
(* Bounds of the model.                                                    *)
(***************************************************************************)
\* Largest number of records in a collection handed to the codec.
MaxRecords == 2
\* Largest vector length of a collection handed to the codec.
MaxDim == 2
\* The vector lengths of the registered providers, scaled down from 384
\* (HuggingFace), 1024 (Cohere), 1536 and 3072 (OpenAI small and large).
DimHuggingFace == 1
DimCohere == 2
DimOpenAISmall == 3
DimOpenAILarge == 4
\* Largest topK passed to a search.
MaxTopK == 4

(***************************************************************************)
(* Program constants.                                                      *)
(***************************************************************************)
\* binaryEmbeddings.ts:26  0x48534345, "HSCE"
MAGIC_NUMBER == 1213416261
\* binaryEmbeddings.ts:27
VERSION == 1
\* binaryEmbeddings.ts:83,87,171,175  width of the provider and model fields
HeaderStringWidth == 128

(***************************************************************************)
(* Generic helpers.                                                        *)
(***************************************************************************)
RECURSIVE Pow2(_)
Pow2(n) == IF n = 0 THEN 1 ELSE 2 * Pow2(n - 1)

RECURSIVE Concat(_)
\* The concatenation of a sequence of sequences (by halves, which keeps the
\* evaluation shallow on long sequences).
Concat(ss) ==
    IF ss = <<>> THEN <<>>
    ELSE IF Len(ss) = 1 THEN ss[1]
    ELSE LET h == Len(ss) \div 2
         IN  Concat(SubSeq(ss, 1, h)) \o Concat(SubSeq(ss, h + 1, Len(ss)))

Min(a, b) == IF a <= b THEN a ELSE b

Max(a, b) == IF a >= b THEN a ELSE b

Abs(n) == IF n < 0 THEN -n ELSE n

\* Uint8Array.prototype.slice(begin, end) with 0-based offsets, clamped to
\* the array: reading past the end yields a shorter array, never an error.
Slice(bytes, begin, end) ==
    LET b == Min(begin, Len(bytes))
        e == Min(end, Len(bytes))
    IN  IF e <= b THEN <<>> ELSE SubSeq(bytes, b + 1, e)

\* n zero bytes.
Zeros(n) == [i \in 1..n |-> 0]

(***************************************************************************)
(* UTF-8: TextEncoder.encode and TextDecoder.decode.                       *)
(***************************************************************************)
\* The UTF-8 bytes of one code point (below U+10000).
Utf8OfCodePoint(cp) ==
    IF cp < 128 THEN <<cp>>
    ELSE IF cp < 2048 THEN <<192 + (cp \div 64), 128 + (cp % 64)>>
    ELSE <<224 + (cp \div 4096), 128 + ((cp \div 64) % 64), 128 + (cp % 64)>>

\* new TextEncoder().encode(str)
TextEncode(str) == Concat([i \in 1..Len(str) |-> Utf8OfCodePoint(str[i])])

IsCont(b) == b >= 128 /\ b < 192

\* The index of the first byte of `bytes` that is not ASCII, or Len + 1.
FirstNonAscii(bytes) ==
    IF \E i \in 1..Len(bytes) : bytes[i] >= 128
    THEN CHOOSE i \in 1..Len(bytes) :
             bytes[i] >= 128 /\ \A j \in 1..(i - 1) : bytes[j] < 128
    ELSE Len(bytes) + 1

\* The decoding of the sequence that starts at a non-ASCII byte: its code
\* point and the number of bytes it takes.  Every maximal ill-formed
\* subsequence decodes to U+FFFD, as TextDecoder does in its default
\* (non-fatal) mode.
Utf8Multi(bytes) ==
    LET b0 == bytes[1]
        n  == Len(bytes)
    IN  IF b0 >= 194 /\ b0 < 224
        THEN IF n >= 2 /\ IsCont(bytes[2])
             THEN [cp |-> (b0 - 192) * 64 + (bytes[2] - 128), used |-> 2]
             ELSE [cp |-> 65533, used |-> 1]
        ELSE IF b0 >= 224 /\ b0 < 240
        THEN IF n >= 2 /\ IsCont(bytes[2]) /\ (b0 # 224 \/ bytes[2] >= 160)
             THEN IF n >= 3 /\ IsCont(bytes[3])
                  THEN [cp |-> (b0 - 224) * 4096 + (bytes[2] - 128) * 64
                                 + (bytes[3] - 128),
                        used |-> 3]
                  ELSE [cp |-> 65533, used |-> 2]
             ELSE [cp |-> 65533, used |-> 1]
        ELSE [cp |-> 65533, used |-> 1]

RECURSIVE Utf8Decode(_)
\* The code points of a byte sequence: ASCII bytes are their own code
\* points, the rest is decoded sequence by sequence.
Utf8Decode(bytes) ==
    LET i == FirstNonAscii(bytes)
    IN  IF i > Len(bytes) THEN bytes
        ELSE LET m == Utf8Multi(SubSeq(bytes, i, Len(bytes)))
             IN  SubSeq(bytes, 1, i - 1) \o <<m.cp>>
                   \o Utf8Decode(SubSeq(bytes, i + m.used, Len(bytes)))

\* new TextDecoder().decode(bytes): a leading byte order mark is dropped.
TextDecode(bytes) ==
    LET cps == Utf8Decode(bytes)
    IN  IF cps # <<>> /\ cps[1] = 65279 THEN Tail(cps) ELSE cps

(***************************************************************************)
(* DataView integer and float32 accessors (big-endian).                    *)
(***************************************************************************)
\* The two bytes setUint16 writes: the value is taken modulo 2^16.
Uint16Bytes(v) == <<(v % 65536) \div 256, v % 256>>

\* The four bytes setUint32 writes (values of the model are below 2^31).
Uint32Bytes(v) ==
    <<v \div 16777216, (v \div 65536) % 256, (v \div 256) % 256, v % 256>>

\* getUint16 at a 0-based offset; the caller checks the range.
GetUint16(bytes, offset) == bytes[offset + 1] * 256 + bytes[offset + 2]

\* getUint32 at a 0-based offset.  Values of 2^31 and above are reported as
\* 2^31 - 1: the model's integers end there, and every such value is larger
\* than any buffer of the model, which is all the decoder uses it for.
GetUint32(bytes, offset) ==
    IF bytes[offset + 1] >= 128 THEN 2147483647
    ELSE bytes[offset + 1] * 16777216 + bytes[offset + 2] * 65536
           + bytes[offset + 3] * 256 + bytes[offset + 4]

\* A DataView read of `width` bytes at `offset` throws a RangeError when it
\* does not fit in the buffer.
InRange(bytes, offset, width) == offset + width <= Len(bytes)

RECURSIVE Log2Floor(_)
Log2Floor(n) == IF n <= 1 THEN 0 ELSE 1 + Log2Floor(n \div 2)

\* The float32 nearest to the integer n (round half to even), as the triple
\* sign, biased exponent, 23-bit mantissa.
Float32Of(n) ==
    IF n = 0 THEN [sign |-> 0, bexp |-> 0, mant |-> 0]
    ELSE LET a == Abs(n)
             e == Log2Floor(a)
             s == IF n < 0 THEN 1 ELSE 0
         IN  IF e <= 23
             THEN [sign |-> s, bexp |-> e + 127,
                   mant |-> a * Pow2(23 - e) - 8388608]
             ELSE LET sh   == e - 23
                      q    == a \div Pow2(sh)
                      r    == a % Pow2(sh)
                      half == Pow2(sh - 1)
                      up   == r > half \/ (r = half /\ q % 2 = 1)
                      q2   == IF up THEN q + 1 ELSE q
                  IN  IF q2 = 16777216
                      THEN [sign |-> s, bexp |-> e + 128, mant |-> 0]
                      ELSE [sign |-> s, bexp |-> e + 127, mant |-> q2 - 8388608]

\* The four bytes setFloat32 writes for the integer n.
Float32Bytes(n) ==
    LET f == Float32Of(n)
    IN  <<f.sign * 128 + (f.bexp \div 2),
          (f.bexp % 2) * 128 + (f.mant \div 65536),
          (f.mant \div 256) % 256,
          f.mant % 256>>

\* getFloat32 at a 0-based offset.  Only integral values are modelled: the
\* buffers of the model hold the float32 images of integers.
GetFloat32(bytes, offset) ==
    LET b0   == bytes[offset + 1]
        b1   == bytes[offset + 2]
        sign == b0 \div 128
        bexp == (b0 % 128) * 2 + (b1 \div 128)
        mant == (b1 % 128) * 65536 + bytes[offset + 3] * 256 + bytes[offset + 4]
        e    == bexp - 127
        sig  == 8388608 + mant
        mag  == CASE bexp = 0 /\ mant = 0 -> 0
                  [] bexp > 0 /\ e >= 23 /\ e <= 30 -> sig * Pow2(e - 23)
                  [] bexp > 0 /\ e >= 0 /\ e < 23 /\ sig % Pow2(23 - e) = 0
                       -> sig \div Pow2(23 - e)
    IN  IF sign = 1 THEN -mag ELSE mag

(***************************************************************************)
(* BinaryEmbeddingsService: encodeString, decodeString.                    *)
(***************************************************************************)
\* encodeString(str) without maxLength: the UTF-8 bytes.
EncodeString(str) == TextEncode(str)

\* An encodeString that pads to maxLength and never cuts.
EncodeStringPadded(str, maxLength) ==
    TextEncode(str) \o Zeros(Max(0, maxLength - Len(TextEncode(str))))

\* encodeString(str, maxLength): cut to maxLength bytes, or zero-padded to it.
EncodeStringFixed(str, maxLength) ==
    LET encoded == TextEncode(str)
    IN  IF Len(encoded) > maxLength THEN SubSeq(encoded, 1, maxLength)
        ELSE encoded \o Zeros(maxLength - Len(encoded))

\* The index of the first zero byte, or Len(bytes) + 1.
FirstZero(bytes) ==
    IF \E i \in 1..Len(bytes) : bytes[i] = 0
    THEN CHOOSE i \in 1..Len(bytes) :
             bytes[i] = 0 /\ \A j \in 1..(i - 1) : bytes[j] # 0
    ELSE Len(bytes) + 1

\* decodeString(bytes): the text before the first zero byte.
DecodeString(bytes) == TextDecode(SubSeq(bytes, 1, FirstZero(bytes) - 1))

(***************************************************************************)
(* BinaryEmbeddingsService.embeddingsToBinary.                             *)
(*                                                                         *)
(* A record (HSCodeEmbedding) has the string fields code, menu,            *)
(* description, chapter, section, provider and model, the vector           *)
(* embedding, and the optional fields menu_vi, description_vi, keywords    *)
(* and keywords_vi; an optional field is the empty set when absent and a   *)
(* singleton when present.                                                 *)
(***************************************************************************)
\* The bytes the encoder's loop body writes for one record (lines 92-133).
RecordBytes(emb) ==
    LET codeBytes    == EncodeString(emb.code)
        menuBytes    == EncodeString(emb.menu)
        descBytes    == EncodeString(emb.description)
        chapterBytes == EncodeString(emb.chapter)
        sectionBytes == EncodeString(emb.section)
    IN  Uint16Bytes(Len(codeBytes)) \o codeBytes
          \o Uint16Bytes(Len(menuBytes)) \o menuBytes
          \o Uint16Bytes(Len(descBytes)) \o descBytes
          \o Uint16Bytes(Len(chapterBytes)) \o chapterBytes
          \o Uint16Bytes(Len(sectionBytes)) \o sectionBytes
          \o Concat([j \in 1..Len(emb.embedding) |-> Float32Bytes(emb.embedding[j])])

\* A size counted in characters instead of UTF-8 bytes.
RecordSizeInCharacters(emb, embeddingDim) ==
    2 + Len(emb.code) + 2 + Len(emb.menu) + 2 + Len(emb.description)
      + 2 + Len(emb.chapter) + 2 + Len(emb.section) + embeddingDim * 4

\* The size the encoder adds for one record before allocating (lines 48-62).
RecordSize(emb, embeddingDim) ==
    2 + Len(TextEncode(emb.code))
      + 2 + Len(TextEncode(emb.menu))
      + 2 + Len(TextEncode(emb.description))
      + 2 + Len(TextEncode(emb.chapter))
      + 2 + Len(TextEncode(emb.section))
      + embeddingDim * 4

RECURSIVE SumSizes(_, _)
SumSizes(embeddings, embeddingDim) ==
    IF embeddings = <<>> THEN 0
    ELSE RecordSize(Head(embeddings), embeddingDim)
           + SumSizes(Tail(embeddings), embeddingDim)

\* The size computed up front (lines 41-62).
TotalSize(embeddings) ==
    16 + 256 + SumSizes(embeddings, Len(embeddings[1].embedding))

\* The bytes of the header (lines 69-89).
HeaderBytes(embeddings, metadata) ==
    Uint32Bytes(MAGIC_NUMBER)
      \o Uint32Bytes(VERSION)
      \o Uint32Bytes(Len(embeddings[1].embedding))
      \o Uint32Bytes(Len(embeddings))
      \o EncodeStringFixed(metadata.provider, HeaderStringWidth)
      \o EncodeStringFixed(metadata.model, HeaderStringWidth)

\* embeddingsToBinary(embeddings, metadata).  The writes are sequential, so
\* one of them leaves the allocated buffer (a RangeError) exactly when all
\* of them together are longer than the size computed up front.
EmbeddingsToBinary(embeddings, metadata) ==
    IF embeddings = <<>>
    THEN [ok |-> FALSE, error |-> "No embeddings to convert"]
    ELSE LET totalSize == TotalSize(embeddings)
             written   == HeaderBytes(embeddings, metadata)
                            \o Concat([i \in 1..Len(embeddings) |->
                                          RecordBytes(embeddings[i])])
         IN  IF Len(written) > totalSize
             THEN [ok |-> FALSE, error |-> "RangeError"]
             ELSE [ok |-> TRUE, bytes |-> written,
                   totalSize |-> totalSize, offset |-> Len(written)]

(***************************************************************************)
(* BinaryEmbeddingsService.binaryToEmbeddings.                             *)
(***************************************************************************)
\* One length-prefixed string at `offset` (lines 192-195 and its four
\* repetitions): getUint16 throws outside the buffer, slice does not.
ReadString(buffer, offset) ==
    IF ~InRange(buffer, offset, 2) THEN [ok |-> FALSE]
    ELSE LET len == GetUint16(buffer, offset)
         IN  [ok |-> TRUE,
              str |-> DecodeString(Slice(buffer, offset + 2, offset + 2 + len)),
              next |-> offset + 2 + len]

\* The vector of embeddingDim floats at `offset` (lines 222-226).
ReadVector(buffer, offset, embeddingDim) ==
    IF embeddingDim > Len(buffer) \/ offset > Len(buffer)
         \/ offset + 4 * embeddingDim > Len(buffer)
    THEN IF embeddingDim = 0 THEN [ok |-> TRUE, vec |-> <<>>, next |-> offset]
         ELSE [ok |-> FALSE]
    ELSE [ok |-> TRUE,
          vec |-> [j \in 1..embeddingDim |-> GetFloat32(buffer, offset + 4 * (j - 1))],
          next |-> offset + 4 * embeddingDim]

\* One iteration of the decoder's loop (lines 191-237).
ReadRecord(buffer, offset, header) ==
    LET c == ReadString(buffer, offset)
    IN  IF ~c.ok THEN [ok |-> FALSE] ELSE
    LET m == ReadString(buffer, c.next)
    IN  IF ~m.ok THEN [ok |-> FALSE] ELSE
    LET d == ReadString(buffer, m.next)
    IN  IF ~d.ok THEN [ok |-> FALSE] ELSE
    LET ch == ReadString(buffer, d.next)
    IN  IF ~ch.ok THEN [ok |-> FALSE] ELSE
    LET s == ReadString(buffer, ch.next)
    IN  IF ~s.ok THEN [ok |-> FALSE] ELSE
    LET v == ReadVector(buffer, s.next, header.embeddingDim)
    IN  IF ~v.ok THEN [ok |-> FALSE] ELSE
        [ok |-> TRUE,
         next |-> v.next,
         rec |-> [code |-> c.str, menu |-> m.str, description |-> d.str,
                  chapter |-> ch.str, section |-> s.str,
                  embedding |-> v.vec,
                  provider |-> header.provider, model |-> header.model,
                  menu_vi |-> {}, description_vi |-> {},
                  keywords |-> {}, keywords_vi |-> {}]]

RECURSIVE ReadRecords(_, _, _, _, _)
\* The end of one iteration of the decoder's loop (line 236): the record read
\* is pushed and the loop goes on from the offset after it; a read outside the
\* buffer has thrown.
PushRecord(buffer, remaining, header, acc, r) ==
    IF ~r.ok THEN [ok |-> FALSE, error |-> "RangeError"]
    ELSE ReadRecords(buffer, r.next, remaining - 1, header, Append(acc, r.rec))

\* The decoder's loop (line 190), `remaining` iterations from `offset`.
ReadRecords(buffer, offset, remaining, header, acc) ==
    IF remaining = 0 THEN [ok |-> TRUE, embeddings |-> acc]
    ELSE PushRecord(buffer, remaining, header, acc,
                    ReadRecord(buffer, offset, header))

\* The header read by binaryToEmbeddings (lines 160-187).
ReadHeader(buffer) ==
    [version      |-> GetUint32(buffer, 4),
     embeddingDim |-> GetUint32(buffer, 8),
     totalCodes   |-> GetUint32(buffer, 12),
     provider     |-> DecodeString(Slice(buffer, 16, 16 + HeaderStringWidth)),
     model        |-> DecodeString(Slice(buffer, 16 + HeaderStringWidth,
                                         16 + 2 * HeaderStringWidth))]

\* The value binaryToEmbeddings returns (line 240) once its loop is over.
DecodedResult(header, body) ==
    IF ~body.ok THEN body
    ELSE [ok |-> TRUE, embeddings |-> body.embeddings, header |-> header]

\* The records of a buffer whose header is `header` (lines 189-238).
ReadBody(buffer, header) ==
    DecodedResult(header, ReadRecords(buffer, 16 + 2 * HeaderStringWidth,
                                      header.totalCodes, header, <<>>))

\* A decoder that checks the version before the magic number.
BinaryToEmbeddingsVersionFirst(buffer) ==
    IF ~InRange(buffer, 0, 8) THEN [ok |-> FALSE, error |-> "RangeError"]
    ELSE IF GetUint32(buffer, 4) # VERSION
    THEN [ok |-> FALSE, error |-> "Unsupported binary format version"]
    ELSE IF SubSeq(buffer, 1, 4) # Uint32Bytes(MAGIC_NUMBER)
    THEN [ok |-> FALSE, error |-> "Invalid binary embeddings format"]
    ELSE IF ~InRange(buffer, 8, 8) THEN [ok |-> FALSE, error |-> "RangeError"]
    ELSE ReadBody(buffer, ReadHeader(buffer))

\* binaryToEmbeddings(buffer).
BinaryToEmbeddings(buffer) ==
    IF ~InRange(buffer, 0, 4) THEN [ok |-> FALSE, error |-> "RangeError"]
    ELSE IF SubSeq(buffer, 1, 4) # Uint32Bytes(MAGIC_NUMBER)
    THEN [ok |-> FALSE, error |-> "Invalid binary embeddings format"]
    ELSE IF ~InRange(buffer, 4, 4) THEN [ok |-> FALSE, error |-> "RangeError"]
    ELSE IF GetUint32(buffer, 4) # VERSION
    THEN [ok |-> FALSE, error |-> "Unsupported binary format version"]
    ELSE IF ~InRange(buffer, 8, 8) THEN [ok |-> FALSE, error |-> "RangeError"]
    ELSE ReadBody(buffer, ReadHeader(buffer))

(***************************************************************************)
(* State.                                                                  *)
(***************************************************************************)
VARIABLES
    \* The codec exercised on its own: the step reached, the collection and
    \* metadata given to embeddingsToBinary, its result, and the result of
    \* binaryToEmbeddings on the bytes it returned, or on cBuffer: those
    \* bytes as a damaged file holds them.
    cPc, cInput, cMeta, cEncoded, cDecoded, cBuffer,
    \* ClientVectorSearch: hsCodesData, currentProvider, currentModel.
    hsCodesData, currentProvider, currentModel,
    \* FallbackSearch: hsCodesData, isLoaded.
    fbData, fbLoaded,
    \* useHSCodeSearch: the isLoading, error and searchMode states, and the
    \* language of the LanguageContext.
    isLoading, error, searchMode, language,
    \* ApiKeyManager: the storage item 'hs_code_api_keys', null (the empty set)
    \* or the JSON text of the map from provider names to encrypted keys.
    apiKeys,
    \* useEmbeddingProviders: the providers state, for each registered provider
    \* key the hasApiKey of its entry.
    providers,
    \* The saveApiKey and removeApiKey calls of useEmbeddingProviders: for each
    \* slot, the frame of the call in flight.
    keyOps,
    \* The search calls of the hook: for each call slot, the frame of the
    \* call in flight (its position, arguments and locals).
    calls,
    \* The call slots in use: one for sequential use, two for overlapping calls.
    slots

codecVars == <<cPc, cInput, cMeta, cEncoded, cDecoded, cBuffer>>

engineVars == <<hsCodesData, currentProvider, currentModel>>

fallbackVars == <<fbData, fbLoaded>>

hookVars == <<isLoading, error, searchMode, language>>

keyVars == <<apiKeys, providers, keyOps>>

appVars == <<engineVars, fallbackVars, hookVars, keyVars, calls, slots>>

vars == <<codecVars, appVars>>

(***************************************************************************)
(* Inputs of the codec.                                                    *)
(***************************************************************************)
\* "openai"
StrOpenaiLower == <<111, 112, 101, 110, 97, 105>>
\* "cohere"
StrCohereLower == <<99, 111, 104, 101, 114, 101>>
\* "text-embedding-3-small"
StrModelSmall == <<116, 101, 120, 116, 45, 101, 109, 98, 101, 100, 100, 105, 110, 103, 45, 51, 45, 115, 109, 97, 108, 108>>
\* "text-embedding-3-large"
StrModelLarge == <<116, 101, 120, 116, 45, 101, 109, 98, 101, 100, 100, 105, 110, 103, 45, 51, 45, 108, 97, 114, 103, 101>>
\* "embed-english-v3.0"
StrModelCohere == <<101, 109, 98, 101, 100, 45, 101, 110, 103, 108, 105, 115, 104, 45, 118, 51, 46, 48>>

\* A record with vector v, carrying the provider and model of meta.
CodecRecord(c, ds, kw, v, meta) ==
    [code |-> c, menu |-> <<72, 111, 114, 115, 101, 115>>, description |-> ds,
     chapter |-> <<48, 49>>, section |-> <<73>>,
     embedding |-> v, provider |-> meta.provider, model |-> meta.model,
     menu_vi |-> {}, description_vi |-> {},
     keywords |-> kw, keywords_vi |-> {}]

\* Records with vectors of length d: a plain one (code "01"), one whose code
\* "A\0B" contains U+0000, one whose description "é" takes two bytes in
\* UTF-8, one with keywords ["kw"], one whose vector is not made of float32
\* values.
CodecRecords(d, meta) ==
    LET ones == [j \in 1..d |-> 1]
        big  == [j \in 1..d |-> IF j = 1 THEN 16777217 ELSE -3]
    IN  { CodecRecord(<<48, 49>>, <<>>, {}, ones, meta),
          CodecRecord(<<65, 0, 66>>, <<>>, {}, ones, meta),
          CodecRecord(<<48, 50>>, <<233>>, {}, ones, meta),
          CodecRecord(<<48, 51>>, <<>>, {<<<<107, 119>>>>}, ones, meta),
          CodecRecord(<<48, 52>>, <<>>, {}, big, meta) }

\* The sequences of 1..n elements of S.
SeqsUpTo(S, n) == UNION { [1..k -> S] : k \in 1..n }

\* The metadata given to the encoder: short strings; a provider of two bytes
\* more than the header field; a model whose last character, "é", lies across
\* the end of the header field.
CodecMetas ==
    { [provider |-> StrOpenaiLower, model |-> StrModelSmall],
      [provider |-> [i \in 1..(HeaderStringWidth + 2) |-> 97],
       model |-> StrModelCohere],
      [provider |-> StrCohereLower,
       model |-> [i \in 1..HeaderStringWidth |->
                     IF i < HeaderStringWidth THEN 97 ELSE 233]] }

(***************************************************************************)
(* The codec on its own: encode a collection, decode the bytes.            *)
(***************************************************************************)
\* The state of the application after construction (helpers.ts:276-278,
\* fallbackSearch.ts:7-8, useHSCodeSearch.ts:13-15).
AppInit ==
    /\ hsCodesData = <<>>
    /\ currentProvider = <<>>
    /\ currentModel = <<>>
    /\ fbData = <<>>
    /\ fbLoaded = FALSE
    /\ isLoading = FALSE
    /\ error = <<>>
    /\ searchMode = "vector"

CodecIdle ==
    /\ cPc = "off"
    /\ cInput = <<>>
    /\ cMeta = [provider |-> <<>>, model |-> <<>>]
    /\ cEncoded = [ok |-> FALSE, error |-> "none"]
    /\ cDecoded = [ok |-> FALSE, error |-> "none"]
    /\ cBuffer = <<>>

CodecInit ==
    /\ cPc = "input"
    /\ cMeta \in CodecMetas
    /\ \E d \in 0..MaxDim : cInput \in SeqsUpTo(CodecRecords(d, cMeta), MaxRecords)
    /\ cEncoded = [ok |-> FALSE, error |-> "none"]
    /\ cDecoded = [ok |-> FALSE, error |-> "none"]
    /\ cBuffer = <<>>
    /\ AppInit
    /\ language = "en"
    /\ apiKeys = {}
    /\ providers = <<>>
    /\ keyOps = <<>>
    /\ calls = <<>>
    /\ slots = {}

\* embeddingsToBinary(cInput, cMeta)
Encode ==
    /\ cPc = "input"
    /\ cEncoded' = EmbeddingsToBinary(cInput, cMeta)
    /\ cPc' = "encoded"
    /\ UNCHANGED <<cInput, cMeta, cDecoded, cBuffer, appVars>>

\* binaryToEmbeddings on the bytes embeddingsToBinary returned
Decode ==
    /\ cPc = "encoded"
    /\ cEncoded.ok
    /\ cDecoded' = BinaryToEmbeddings(cEncoded.bytes)
    /\ cPc' = "decoded"
    /\ UNCHANGED <<cInput, cMeta, cEncoded, cBuffer, appVars>>

\* A buffer whose magic number is wrong.
BadMagic(bytes) == <<0>> \o Tail(bytes)

\* A buffer whose version field is not VERSION.
WrongVersion(bytes) == SubSeq(bytes, 1, 4) \o Uint32Bytes(VERSION + 1)
                         \o SubSeq(bytes, 9, Len(bytes))

\* The lengths a file is cut to: inside the magic number, the version, the
\* dimension and the count, inside the provider and at the end of the header,
\* inside the first record and near the end of the last one.
CutPoints(bytes) ==
    { k \in {0, 3, 4, 7, 8, 15, 16, 16 + HeaderStringWidth,
             16 + 2 * HeaderStringWidth, 17 + 2 * HeaderStringWidth,
             Len(bytes) - 4, Len(bytes) - 1} : k >= 0 /\ k < Len(bytes) }

\* What damage makes of the bytes of a file: another magic number, another
\* version, or a cut; `whole` is the length of the file as written.
Damages(bytes, whole) ==
    (IF Len(bytes) >= 4 THEN {BadMagic(bytes)} ELSE {})
      \cup (IF Len(bytes) >= 8 THEN {WrongVersion(bytes)} ELSE {})
      \cup (IF Len(bytes) = whole
            THEN { SubSeq(bytes, 1, k) : k \in CutPoints(bytes) }
            ELSE {})

\* The file written by embeddingsToBinary is damaged on its way to the decoder.
Damage ==
    /\ cPc \in {"encoded", "damaged"}
    /\ cEncoded.ok
    /\ LET file == IF cPc = "encoded" THEN cEncoded.bytes ELSE cBuffer
       IN  \E damaged \in Damages(file, Len(cEncoded.bytes)) :
               /\ damaged # file
               /\ cBuffer' = damaged
    /\ cPc' = "damaged"
    /\ UNCHANGED <<cInput, cMeta, cEncoded, cDecoded, appVars>>

\* binaryToEmbeddings on the damaged file
DecodeDamaged ==
    /\ cPc = "damaged"
    /\ cDecoded' = BinaryToEmbeddings(cBuffer)
    /\ cPc' = "decodedDamaged"
    /\ UNCHANGED <<cInput, cMeta, cEncoded, cBuffer, appVars>>

CodecNext == Encode \/ Decode \/ Damage \/ DecodeDamaged

SpecCodec == CodecInit /\ [][CodecNext]_vars

(***************************************************************************)
(* String helpers of the loader and the ranker.                            *)
(***************************************************************************)
\* String.prototype.toLowerCase on the letters A-Z.
LowerCp(c) == IF c >= 65 /\ c <= 90 THEN c + 32 ELSE c

ToLowerCase(str) == [i \in 1..Len(str) |-> LowerCp(str[i])]

\* model.replace(/\./g, '-')
ReplaceDots(str) == [i \in 1..Len(str) |-> IF str[i] = 46 THEN 45 ELSE str[i]]

\* `/data/${provider.toLowerCase()}-embeddings/${modelKey}` (helpers.ts:285-287)
ResourceStem(provider, model) ==
    <<47, 100, 97, 116, 97, 47>> \o ToLowerCase(provider) \o <<45, 101, 109, 98, 101, 100, 100, 105, 110, 103, 115, 47>> \o ReplaceDots(model)

\* A binary path built from the model as given, its dots kept.
BinaryPathDotsKept(provider, model) ==
    <<47, 100, 97, 116, 97, 47>> \o ToLowerCase(provider) \o <<45, 101, 109, 98, 101, 100, 100, 105, 110, 103, 115, 47>> \o model \o <<46, 98, 105, 110>>

BinaryPath(provider, model) == ResourceStem(provider, model) \o <<46, 98, 105, 110>>

JsonPath(provider, model) == ResourceStem(provider, model) \o <<46, 106, 115, 111, 110>>

\* fallbackSearch.ts:17
BasicDataPath == <<47, 100, 97, 116, 97, 47, 104, 115, 45, 99, 111, 100, 101, 115, 45, 98, 97, 115, 105, 99, 46, 106, 115, 111, 110>>

(***************************************************************************)
(* EmbeddingProviderFactory: the registered providers.  The dimensions are *)
(* scaled down (the program's are 384, 1024, 1536 and 3072) and keep their *)
(* order; all four differ, as in the program.                              *)
(***************************************************************************)
ProviderKeys == {"openai-small", "openai-large", "cohere", "huggingface"}

Providers ==
    [k \in ProviderKeys |->
        CASE k = "openai-small" ->
               [name |-> <<79, 112, 101, 110, 65, 73>>, model |-> StrModelSmall,
                dimensions |-> DimOpenAISmall]
          [] k = "openai-large" ->
               [name |-> <<79, 112, 101, 110, 65, 73>>, model |-> StrModelLarge,
                dimensions |-> DimOpenAILarge]
          [] k = "cohere" ->
               [name |-> <<67, 111, 104, 101, 114, 101>>, model |-> StrModelCohere,
                dimensions |-> DimCohere]
          [] k = "huggingface" ->
               [name |-> <<72, 117, 103, 103, 105, 110, 103, 70, 97, 99, 101>>,
                model |-> <<115, 101, 110, 116, 101, 110, 99, 101, 45, 116, 114, 97, 110, 115, 102, 111, 114, 109, 101, 114, 115, 47, 97, 108, 108, 45, 77, 105, 110, 105, 76, 77, 45, 76, 54, 45, 118, 50>>,
                dimensions |-> DimHuggingFace]]

\* EmbeddingProviderFactory.getProvider(providerKey): the provider, or null
\* (here the empty set) for an unregistered key.
GetProvider(providerKey) ==
    IF providerKey \in ProviderKeys THEN {Providers[providerKey]} ELSE {}

(***************************************************************************)
(* ClientVectorSearch: cosineSimilarity and the ranking of search.         *)
(*                                                                         *)
(* A similarity is kept exact, as the pair num, den2 that stands for       *)
(* num / sqrt(den2).  The program computes it in doubles; on the vectors   *)
(* of this model two similarities that are equal here come from equal dot  *)
(* products and magnitudes, and unequal ones differ by far more than a     *)
(* rounding error, so the order is the program's.                          *)
(***************************************************************************)
RECURSIVE Dot(_, _)
Dot(a, b) == IF a = <<>> THEN 0 ELSE a[1] * b[1] + Dot(Tail(a), Tail(b))

Sign(n) == IF n > 0 THEN 1 ELSE IF n < 0 THEN -1 ELSE 0

\* A cosine that divides by the product of the magnitudes whatever it is.
CosineValueUnguarded(vecA, vecB) ==
    [num |-> Dot(vecA, vecB), den2 |-> Dot(vecA, vecA) * Dot(vecB, vecB)]

\* cosineSimilarity(vecA, vecB) for vectors of one length (lines 377-385).
CosineValue(vecA, vecB) ==
    LET dotProduct == Dot(vecA, vecB)
        magA2      == Dot(vecA, vecA)
        magB2      == Dot(vecB, vecB)
    IN  IF magA2 = 0 \/ magB2 = 0 THEN [num |-> 0, den2 |-> 1]
        ELSE [num |-> dotProduct, den2 |-> magA2 * magB2]

\* cosineSimilarity(vecA, vecB): throws on vectors of different lengths.
CosineSimilarity(vecA, vecB) ==
    IF Len(vecA) # Len(vecB)
    THEN [ok |-> FALSE]
    ELSE [ok |-> TRUE, value |-> CosineValue(vecA, vecB)]

\* The sign of x - y for two similarities num / sqrt(den2).
CosCompare(x, y) ==
    Sign(Sign(x.num) * x.num * x.num * y.den2 - Sign(y.num) * y.num * y.num * x.den2)

\* The sign of x - y for two keyword scores num / den.
RatCompare(x, y) == Sign(x.num * y.den - y.num * x.den)

\* The sign of a.similarity - b.similarity for two results of one search.
SimCompare(a, b) ==
    IF a.source = "vector" THEN CosCompare(a.similarity, b.similarity)
    ELSE RatCompare(a.similarity, b.similarity)

\* A sort that is not stable: x goes before the elements it ties with.
InsertSortedBeforeTies(x, sorted) ==
    LET after == {i \in 1..Len(sorted) : SimCompare(sorted[i], x) > 0}
        k     == IF after = {} THEN 0 ELSE CHOOSE i \in after : \A j \in after : j <= i
    IN  SubSeq(sorted, 1, k) \o <<x>> \o SubSeq(sorted, k + 1, Len(sorted))

\* x placed in a list sorted by (a, b) => b.similarity - a.similarity, after
\* every element that does not sort after it.
InsertSorted(x, sorted) ==
    LET after == {i \in 1..Len(sorted) : SimCompare(sorted[i], x) >= 0}
        k     == IF after = {} THEN 0 ELSE CHOOSE i \in after : \A j \in after : j <= i
    IN  SubSeq(sorted, 1, k) \o <<x>> \o SubSeq(sorted, k + 1, Len(sorted))

RECURSIVE SortBySimilarity(_)
\* Array.prototype.sort((a, b) => b.similarity - a.similarity): a stable
\* sort, non-increasing in the similarity.
SortBySimilarity(results) ==
    IF results = <<>> THEN <<>>
    ELSE InsertSorted(results[Len(results)],
                      SortBySimilarity(SubSeq(results, 1, Len(results) - 1)))

\* A slice that stops one element early.
SliceToOneShort(seq, end) ==
    LET e == IF end < 0 THEN Max(Len(seq) + end, 0) ELSE Min(end, Len(seq))
    IN  SubSeq(seq, 1, Max(e - 1, 0))

\* Array.prototype.slice(0, end)
SliceTo(seq, end) ==
    LET e == IF end < 0 THEN Max(Len(seq) + end, 0) ELSE Min(end, Len(seq))
    IN  SubSeq(seq, 1, e)

\* The result record of the vector search for one record (lines 354-358).
VectorResult(hsCode, queryEmbedding) ==
    [code |-> hsCode.code, menu |-> hsCode.menu,
     description |-> hsCode.description,
     chapter |-> hsCode.chapter, section |-> hsCode.section,
     embedding |-> hsCode.embedding,
     provider |-> hsCode.provider, model |-> hsCode.model,
     menu_vi |-> hsCode.menu_vi, description_vi |-> hsCode.description_vi,
     keywords |-> hsCode.keywords, keywords_vi |-> hsCode.keywords_vi,
     similarity |-> CosineValue(queryEmbedding, hsCode.embedding),
     source |-> "vector"]

\* A search without the check of the query's length against the provider's
\* declared dimension.
ScoreCollectionUnchecked(data, queryEmbedding, provider, topK) ==
    IF Len(data) = 0
    THEN [ok |-> FALSE,
          error |-> [msg |-> "No precomputed embeddings available", a |-> 0, b |-> 0]]
    ELSE IF \E i \in 1..Len(data) :
                ~CosineSimilarity(queryEmbedding, data[i].embedding).ok
    THEN [ok |-> FALSE,
          error |-> [msg |-> "Vectors must have same dimension", a |-> 0, b |-> 0]]
    ELSE [ok |-> TRUE,
          results |->
              SliceTo(SortBySimilarity(
                          [i \in 1..Len(data) |-> VectorResult(data[i], queryEmbedding)]),
                      topK)]

\* A search that scores only the records tagged with its own provider and
\* model.
ScoreCollectionOwnRecords(data, queryEmbedding, provider, topK) ==
    LET own == SelectSeq(data, LAMBDA r : /\ r.provider = ToLowerCase(provider.name)
                                          /\ r.model = provider.model)
    IN  IF Len(own) = 0
        THEN [ok |-> FALSE,
              error |-> [msg |-> "No precomputed embeddings available", a |-> 0, b |-> 0]]
        ELSE IF Len(queryEmbedding) # provider.dimensions
        THEN [ok |-> FALSE,
              error |-> [msg |-> "Embedding dimension mismatch: query (a) vs expected (b)",
                         a |-> Len(queryEmbedding), b |-> provider.dimensions]]
        ELSE IF \E i \in 1..Len(own) :
                    ~CosineSimilarity(queryEmbedding, own[i].embedding).ok
        THEN [ok |-> FALSE,
              error |-> [msg |-> "Vectors must have same dimension", a |-> 0, b |-> 0]]
        ELSE [ok |-> TRUE,
              results |->
                  SliceTo(SortBySimilarity(
                              [i \in 1..Len(own) |-> VectorResult(own[i], queryEmbedding)]),
                          topK)]

\* The part of search after the collection is ensured (lines 341-362): the
\* results, or the error thrown.
ScoreCollection(data, queryEmbedding, provider, topK) ==
    IF Len(data) = 0
    THEN [ok |-> FALSE,
          error |-> [msg |-> "No precomputed embeddings available", a |-> 0, b |-> 0]]
    ELSE IF Len(queryEmbedding) # provider.dimensions
    THEN [ok |-> FALSE,
          error |-> [msg |-> "Embedding dimension mismatch: query (a) vs expected (b)",
                     a |-> Len(queryEmbedding), b |-> provider.dimensions]]
    ELSE IF \E i \in 1..Len(data) :
                ~CosineSimilarity(queryEmbedding, data[i].embedding).ok
    THEN [ok |-> FALSE,
          error |-> [msg |-> "Vectors must have same dimension", a |-> 0, b |-> 0]]
    ELSE [ok |-> TRUE,
          results |->
              SliceTo(SortBySimilarity(
                          [i \in 1..Len(data) |-> VectorResult(data[i], queryEmbedding)]),
                      topK)]

(***************************************************************************)
(* FallbackSearch: the keyword ranker.                                     *)
(***************************************************************************)
\* The characters /\s/ matches, among those of the model.
IsSpace(c) == c \in {9, 10, 13, 32}

RECURSIVE SplitOnSpaces(_)
\* str.split(/\s+/) without the empty strings it yields at the ends: the
\* maximal runs of characters that are not white space.
SplitOnSpaces(str) ==
    LET starts == {i \in 1..Len(str) : ~IsSpace(str[i])}
    IN  IF starts = {} THEN <<>>
        ELSE LET b    == CHOOSE i \in starts : \A j \in starts : i <= j
                 ends == {i \in b..Len(str) : IsSpace(str[i])}
                 e    == IF ends = {} THEN Len(str) + 1
                         ELSE CHOOSE i \in ends : \A j \in ends : i <= j
             IN  <<SubSeq(str, b, e - 1)>> \o SplitOnSpaces(SubSeq(str, e, Len(str)))

\* The query words of search (fallbackSearch.ts:39-42).
QueryWords(query) ==
    SelectSeq(SplitOnSpaces(ToLowerCase(query)), LAMBDA word : Len(word) > 2)

RECURSIVE JoinWithSpace(_)
\* keywords.join(' ')
JoinWithSpace(words) ==
    IF words = <<>> THEN <<>>
    ELSE IF Len(words) = 1 THEN words[1]
    ELSE words[1] \o <<32>> \o JoinWithSpace(Tail(words))

\* `${hsCode.description} ${hsCode.keywords?.join(' ') || ''}`.toLowerCase()
SearchText(hsCode) ==
    LET kw == IF hsCode.keywords = {} THEN <<>>
              ELSE JoinWithSpace(CHOOSE k \in hsCode.keywords : TRUE)
    IN  ToLowerCase(hsCode.description \o <<32>> \o kw)

\* text.includes(word)
Includes(text, word) ==
    \E i \in 1..(Len(text) - Len(word) + 1) :
        SubSeq(text, i, i + Len(word) - 1) = word

RECURSIVE SumOver(_, _)
\* The sum of f[i] over the elements i of the finite set S.
SumOver(S, f) ==
    IF S = {} THEN 0
    ELSE LET i == CHOOSE j \in S : TRUE IN f[i] + SumOver(S \ {i}, f)

\* A keyword score without the boost by the ratio of matched words.
CalculateKeywordScoreNoRatio(queryWords, hsCode) ==
    LET text     == SearchText(hsCode)
        matched  == {i \in 1..Len(queryWords) : Includes(text, queryWords[i])}
        scoreNum == SumOver(matched,
                            [i \in matched |-> Min(Len(queryWords[i]) * 10, Len(text))])
    IN  IF Len(text) = 0 \/ scoreNum = 0 THEN [num |-> 0, den |-> 1]
        ELSE IF scoreNum >= Len(text) THEN [num |-> 1, den |-> 1]
        ELSE [num |-> scoreNum, den |-> Len(text)]

\* calculateKeywordScore(queryWords, hsCode), as the exact fraction num / den.
CalculateKeywordScore(queryWords, hsCode) ==
    LET text       == SearchText(hsCode)
        textLength == Len(text)
        matched    == {i \in 1..Len(queryWords) : Includes(text, queryWords[i])}
        \* score * textLength
        scoreNum   == SumOver(matched,
                              [i \in matched |-> Min(Len(queryWords[i]) * 10, textLength)])
        num        == scoreNum * Cardinality(matched)
        den        == textLength * Len(queryWords)
    IN  IF textLength = 0 \/ num = 0 THEN [num |-> 0, den |-> 1]
        ELSE IF num >= den THEN [num |-> 1, den |-> 1]
        ELSE [num |-> num, den |-> den]

\* The result record of the keyword search for one record (lines 49-56).
KeywordResult(hsCode, queryWords) ==
    [code |-> hsCode.code, menu |-> hsCode.menu,
     description |-> hsCode.description,
     chapter |-> hsCode.chapter, section |-> hsCode.section,
     embedding |-> <<>>,
     provider |-> <<102, 97, 108, 108, 98, 97, 99, 107>>, model |-> <<107, 101, 121, 119, 111, 114, 100>>,
     menu_vi |-> hsCode.menu_vi, description_vi |-> hsCode.description_vi,
     keywords |-> hsCode.keywords, keywords_vi |-> hsCode.keywords_vi,
     similarity |-> CalculateKeywordScore(queryWords, hsCode),
     source |-> "keyword-fallback"]

\* result.similarity > 0.05
AboveNoiseFloor(result) == 20 * result.similarity.num > result.similarity.den

\* FallbackSearch.search(query, topK) on the loaded data.
FallbackRank(data, loaded, query, topK) ==
    IF ~loaded \/ Len(data) = 0 THEN <<>>
    ELSE LET queryWords == QueryWords(query)
         IN  IF Len(queryWords) = 0 THEN <<>>
             ELSE SliceTo(
                      SortBySimilarity(
                          SelectSeq([i \in 1..Len(data) |->
                                         KeywordResult(data[i], queryWords)],
                                    AboveNoiseFloor)),
                      topK)

(***************************************************************************)
(* The environment: the resources the store serves, the vectors the        *)
(* provider gateway returns, the queries.                                  *)
(***************************************************************************)
\* The vectors of length d used in stored records and as query vectors.
UnitVec(d) == [j \in 1..d |-> IF j = 1 THEN 1 ELSE 0]

OnesVec(d) == [j \in 1..d |-> 1]

ZeroVec(d) == [j \in 1..d |-> 0]

\* A stored record of the provider p, tagged as the data files tag it: with
\* the lower-case provider name and the model.
StoredRecord(code, vec, kw, p) ==
    [code |-> code, menu |-> <<65, 110, 105, 109, 97, 108, 115>>, description |-> <<76, 105, 118, 101, 32, 97, 110, 105, 109, 97, 108, 115>>,
     chapter |-> <<48, 49>>, section |-> <<73>>,
     embedding |-> vec, provider |-> ToLowerCase(p.name), model |-> p.model,
     menu_vi |-> {}, description_vi |-> {},
     keywords |-> kw, keywords_vi |-> {}]

\* The collection of a provider as its data file holds it: three records
\* of the provider's dimension, the first and the third with one vector.
GoodCollection(p) ==
    <<StoredRecord(<<48, 49, 48, 49>>, UnitVec(p.dimensions), {}, p),
      StoredRecord(<<48, 49, 48, 50>>, OnesVec(p.dimensions), {}, p),
      StoredRecord(<<48, 49, 48, 51>>, UnitVec(p.dimensions), {}, p)>>

\* A collection with keywords and a zero vector, found in textual files.
KeywordCollection(p) ==
    <<StoredRecord(<<48, 50, 48, 49>>, ZeroVec(p.dimensions), {<<<<109, 101, 97, 116>>>>}, p),
      StoredRecord(<<48, 50, 48, 50>>, OnesVec(p.dimensions), {<<<<98, 101, 101, 102>>>>}, p)>>

\* A data file made for another vector length than the provider's.
WrongDimCollection(p) ==
    <<StoredRecord(<<48, 51, 48, 49>>, OnesVec(p.dimensions + 1), {}, p),
      StoredRecord(<<48, 51, 48, 50>>, UnitVec(p.dimensions + 1), {}, p)>>

\* A textual data file whose records do not all have one vector length.
MixedCollection(p) ==
    <<StoredRecord(<<48, 52, 48, 49>>, UnitVec(p.dimensions), {}, p),
      StoredRecord(<<48, 52, 48, 50>>, OnesVec(p.dimensions + 1), {}, p)>>

\* The metadata a converter gives the encoder for the provider p.
MetadataOf(p) == [provider |-> ToLowerCase(p.name), model |-> p.model]

\* A buffer cut in its first record.
Truncated(bytes) == SubSeq(bytes, 1, 16 + 2 * HeaderStringWidth + 8)

\* What fetch(path) of a binary resource can bring: a transport error
\* ("throws"), a response that is not ok ("notok"), or a body.
BinaryResponses(p) ==
    { [kind |-> "throws"], [kind |-> "notok"] }
      \cup { [kind |-> "body", bytes |-> b] :
               b \in { EmbeddingsToBinary(GoodCollection(p), MetadataOf(p)).bytes,
                       EmbeddingsToBinary(WrongDimCollection(p), MetadataOf(p)).bytes,
                       BadMagic(EmbeddingsToBinary(GoodCollection(p), MetadataOf(p)).bytes),
                       Truncated(EmbeddingsToBinary(GoodCollection(p), MetadataOf(p)).bytes) } }

\* What fetch(path) of a textual resource can bring: a transport error, a
\* response that is not ok, a body that is not JSON ("badjson"), or the
\* parsed body; hs_codes is absent (the empty set) or one sequence of records.
JsonResponses(p) ==
    { [kind |-> "throws"], [kind |-> "notok"], [kind |-> "badjson"] }
      \cup { [kind |-> "body", hs_codes |-> h] :
               h \in { {GoodCollection(p)}, {KeywordCollection(p)},
                       {WrongDimCollection(p)}, {MixedCollection(p)}, {} } }

\* A record of the basic dataset (HSCode: no vector).
BasicRecord(code, description, kw) ==
    [code |-> code, menu |-> <<65, 110, 105, 109, 97, 108, 115>>, description |-> description,
     chapter |-> <<48, 49>>, section |-> <<73>>,
     menu_vi |-> {}, description_vi |-> {},
     keywords |-> kw, keywords_vi |-> {}]

\* A record of the basic dataset that carries its Vietnamese description and
\* keywords as well.
BilingualRecord(code, description, descriptionVi, kw, kwVi) ==
    [BasicRecord(code, description, kw) EXCEPT !.description_vi = {descriptionVi},
                                               !.keywords_vi = {kwVi}]

\* The basic dataset served at /data/hs-codes-basic.json; its last record,
\* "Ornamental fish", has the description "Cá cảnh" and the keywords
\* ["cá", "thủy sinh"] in Vietnamese.
BasicDataset ==
    <<BasicRecord(<<48, 49, 48, 50>>, <<76, 105, 118, 101, 32, 98, 111, 118, 105, 110, 101, 32, 97, 110, 105, 109, 97, 108, 115>>, {}),
      BasicRecord(<<48, 49, 48, 49>>, <<76, 105, 118, 101, 32, 104, 111, 114, 115, 101, 115>>, {<<<<104, 111, 114, 115, 101>>, <<112, 111, 110, 121>>>>}),
      BasicRecord(<<48, 49, 48, 54>>, <<79, 116, 104, 101, 114, 32, 108, 105, 118, 101, 32, 97, 110, 105, 109, 97, 108, 115>>, {}),
      BasicRecord(<<48, 49, 48, 53>>, <<76, 105, 118, 101, 32, 112, 111, 117, 108, 116, 114, 121, 58, 32, 102, 111, 119, 108, 115, 44, 32, 100, 117, 99, 107, 115, 44, 32, 103, 101, 101, 115, 101, 44, 32, 116, 117, 114, 107, 101, 121, 115, 32, 97, 110, 100, 32, 103, 117, 105, 110, 101, 97, 32, 102, 111, 119, 108, 115>>, {}),
      BilingualRecord(<<48, 51, 48, 49>>, <<79, 114, 110, 97, 109, 101, 110, 116, 97, 108, 32, 102, 105, 115, 104>>,
                      <<67, 225, 32, 99, 7843, 110, 104>>, {},
                      <<<<99, 225>>, <<116, 104, 7911, 121, 32, 115, 105, 110, 104>>>>)>>

\* The queries a user types; the last one is "cảnh".
Queries ==
    { <<76, 105, 118, 101, 32, 104, 111, 114, 115, 101, 115>>, <<97, 32, 97, 110, 32, 116, 104, 101>>, <<97, 110, 32, 111, 102>>,
      <<99, 7843, 110, 104>> }

\* The topK values a caller passes.
TopKs == {0, 2, MaxTopK}

\* The provider keys a caller passes; the last one is not registered.
SearchKeys == {"openai-small", "openai-large", "cohere", "unknown"}

\* The arguments of two overlapping calls: one query and one topK, and for
\* each call slot the provider the user has selected for it.
OverlapQueries == { <<76, 105, 118, 101, 32, 104, 111, 114, 115, 101, 115>> }

OverlapTopKs == {2}

OverlapKeys(c) == IF c = 1 THEN {"openai-small"} ELSE {"cohere"}

\* What fetch of the basic dataset can bring.
BasicDataResponses ==
    { [kind |-> "throws"], [kind |-> "notok"], [kind |-> "badjson"] }
      \cup { [kind |-> "body", hs_codes |-> h] : h \in { {BasicDataset}, {} } }

\* The paths of the store's resources.
StorePaths ==
    { BinaryPath(Providers[k].name, Providers[k].model) : k \in ProviderKeys }
      \cup { JsonPath(Providers[k].name, Providers[k].model) : k \in ProviderKeys }
      \cup { BasicDataPath }

\* The store: for each of its paths, the responses fetch(path) can bring.
Store ==
    [path \in StorePaths |->
        IF path = BasicDataPath THEN BasicDataResponses
        ELSE LET p == Providers[CHOOSE k \in ProviderKeys :
                          path \in { BinaryPath(Providers[k].name, Providers[k].model),
                                     JsonPath(Providers[k].name, Providers[k].model) }]
             IN  IF path = BinaryPath(p.name, p.model) THEN BinaryResponses(p)
                 ELSE JsonResponses(p)]

\* The responses fetch(path) can bring; a path the store does not have is
\* not found, or the transport fails.
FetchResponses(path) ==
    IF path \in StorePaths THEN Store[path]
    ELSE { [kind |-> "throws"], [kind |-> "notok"] }

\* data.hs_codes || []
HsCodesOrEmpty(body) ==
    IF body.hs_codes = {} THEN <<>> ELSE CHOOSE h \in body.hs_codes : TRUE

\* What provider.generateEmbedding can bring: an error, or a vector; a
\* gateway may return a vector of another length than the one declared.
GatewayResponses(p) ==
    { [kind |-> "throws"] }
      \cup { [kind |-> "vector", embedding |-> v] :
               v \in { UnitVec(p.dimensions),
                       ZeroVec(p.dimensions), OnesVec(p.dimensions + 1) } }

(***************************************************************************)
(* ApiKeyManager: the stored keys.                                         *)
(***************************************************************************)
\* CryptoJS.AES.encrypt(apiKey, ENCRYPTION_KEY).toString(): a ciphertext that
\* decrypts to apiKey under the one encryption key.
Encrypt(apiKey) == [aes |-> apiKey]

\* CryptoJS.AES.decrypt(encrypted, ENCRYPTION_KEY).toString(CryptoJS.enc.Utf8)
Decrypt(encrypted) == encrypted.aes

\* JSON.stringify(keys): the text of the map keys, a function from provider
\* names to encrypted keys; JSON.parse gives the map back.
JsonStringify(keys) == [json |-> keys]

\* getAllKeys() on the item read: stored ? JSON.parse(stored) : {}; the map
\* {} is the function <<>> of no name.
GetAllKeys(item) ==
    IF item = {} THEN <<>> ELSE (CHOOSE stored \in item : TRUE).json

\* getApiKey(provider) on the item read: the decrypted key, or null (the
\* empty set) when there is none or it decrypts to the empty string.
GetApiKey(item, provider) ==
    LET keys == GetAllKeys(item)
    IN  IF provider \notin DOMAIN keys THEN {}
        ELSE IF Decrypt(keys[provider]) = <<>> THEN {}
        ELSE {Decrypt(keys[provider])}

(***************************************************************************)
(* The loader's and the hook's decisions.                                  *)
(***************************************************************************)
\* A cache check that looks at the provider's name only.
CacheMatchesName(provider, curProvider, curModel) ==
    ~(provider.name # curProvider)

\* The cache check of search (helpers.ts:337): the collection of this
\* provider and model is the cached one.
CacheMatches(provider, curProvider, curModel) ==
    ~(provider.model # curModel \/ provider.name # curProvider)

\* A load error that names the model only.
LoadErrorModelOnly(provider, model) ==
    [msg |-> "Could not load embeddings for a/b", a |-> <<>>, b |-> model]

\* The error loadPrecomputedEmbeddings throws (helpers.ts:319).
LoadError(provider, model) ==
    [msg |-> "Could not load embeddings for a/b", a |-> provider, b |-> model]

\* The message of that error: `Could not load embeddings for ${provider}/${model}`.
LoadErrorMessage(e) ==
    <<67, 111, 117, 108, 100, 32, 110, 111, 116, 32, 108, 111, 97, 100, 32, 101, 109, 98, 101, 100, 100, 105, 110, 103, 115, 32, 102, 111, 114, 32>> \o e.a \o <<47>> \o e.b

\* The error a provider's generateEmbedding throws.
GatewayError == [msg |-> "Provider API error", a |-> 0, b |-> 0]

\* What loadPrecomputedEmbeddings does with what binaryToEmbeddings made of
\* the body (helpers.ts:297-303, 317-320): store the records, or fail.
OnBinaryBody(decoded) ==
    IF decoded.ok THEN [step |-> "store", data |-> decoded.embeddings]
    ELSE [step |-> "fail"]

\* What loadPrecomputedEmbeddings does with the response to fetch(binaryPath)
\* (helpers.ts:294-307, 317-320): store the decoded records, fetch the
\* textual resource, or fail.
OnBinaryResponse(resp) ==
    CASE resp.kind = "throws" -> [step |-> "fail"]
      [] resp.kind = "notok"  -> [step |-> "fetchJson"]
      [] resp.kind = "body"   -> OnBinaryBody(BinaryToEmbeddings(resp.bytes))

\* What loadPrecomputedEmbeddings does with the response to fetch(jsonPath)
\* (helpers.ts:307-320).
OnJsonResponse(resp) ==
    IF resp.kind = "body" THEN [step |-> "store", data |-> HsCodesOrEmpty(resp)]
    ELSE [step |-> "fail"]

\* The messages the hook shows; a message is the sequence of its parts, and
\* null the empty sequence.
NullError == <<>>

ProviderNotFound(providerKey) == <<"Provider ", providerKey, " not found">>

\* A hook that shows no message when the ranker finds nothing.
NoMessageWhenEmpty == <<>>

NoResultsMessage == <<"No results found. Try different keywords.">>

FallbackLoadError == <<"Could not load fallback search data">>

\* `${errorMessage}. Fallback also failed: ${fallbackMessage}`
BothFailedMessage(errorMessage, fallbackMessage) ==
    errorMessage \o <<". Fallback also failed: ">> \o fallbackMessage

(***************************************************************************)
(* The frame of a search call of the hook.                                 *)
(*   pc             where the call is suspended:                           *)
(*     "idle"          no call yet                                         *)
(*     "getApiKey"     awaiting ApiKeyManager.getApiKey                    *)
(*     "gateway"       awaiting provider.generateEmbedding                 *)
(*     "fetchBin"      awaiting fetch(binaryPath) and its body             *)
(*     "fetchJson"     awaiting fetch(jsonPath) and its body               *)
(*     "loadReturned"  loadPrecomputedEmbeddings resolved; search resumes  *)
(*     "vectorSettled" vectorSearch.search settled; the hook resumes       *)
(*     "fbFetch"       awaiting the fetch of loadBasicData and its body    *)
(*     "fbReturned"    loadBasicData settled; the hook resumes             *)
(*     "done"          the call has returned `results`                     *)
(*   apiKey         the key getApiKey resolved to, or null (the empty set) *)
(*   fetched        the paths this call has fetched, in order              *)
(*   binResponse    what fetch(binaryPath) brought this call's load:       *)
(*                  "none" (not settled), "throws", "notok" or "body"      *)
(*   jsonResponse   what fetch(jsonPath) brought this call's load: "none", *)
(*                  "throws", "notok", "badjson" or "body"                 *)
(*   body           the binary body this call's load has just decoded      *)
(*   vec            the outcome of vectorSearch.search                     *)
(*   fbOk           loadBasicData resolved (TRUE) or rejected              *)
(*   inCatch        the call is in the catch block of the hook             *)
(*   via            the return statement the call left by                  *)
(***************************************************************************)
NoOutcome == [ok |-> FALSE, error |-> [msg |-> "none", a |-> 0, b |-> 0]]

IdleFrame ==
    [pc |-> "idle", query |-> <<>>, providerKey |-> "none", topK |-> 0,
     hasKey |-> FALSE, apiKey |-> {}, queryEmbedding |-> <<>>, fetched |-> <<>>,
     binResponse |-> "none", jsonResponse |-> "none", body |-> <<>>,
     vec |-> NoOutcome, fbOk |-> FALSE, inCatch |-> FALSE,
     errorMessage |-> <<>>, results |-> <<>>, via |-> "none"]

Calls == {1, 2}

\* The provider of a call in flight past the registry lookup.
ProviderOf(c) == Providers[calls[c].providerKey]

\* fallbackSearch.loadBasicData() up to its first await (fallbackSearch.ts:
\* 13-17): nothing to do when the data is loaded, a fetch otherwise.
CallLoadBasicData(frame) ==
    IF fbLoaded
    THEN [frame EXCEPT !.pc = "fbReturned", !.fbOk = TRUE]
    ELSE [frame EXCEPT !.pc = "fbFetch",
                       !.fetched = Append(frame.fetched, BasicDataPath)]

(***************************************************************************)
(* The steps of a search call.                                             *)
(***************************************************************************)
\* search(query, providerKey, topK) up to its first await
\* (useHSCodeSearch.ts:26-36, and 59-65 for an unregistered provider), the
\* arguments drawn from the given sets.
SearchFrom(c, queries, keys, topKs) ==
    /\ c \in slots
    /\ \E q \in queries, key \in keys, k \in topKs :
         LET frame == [IdleFrame EXCEPT !.query = q, !.providerKey = key, !.topK = k]
         IN  /\ isLoading' = TRUE
             /\ IF GetProvider(key) = {}
                THEN /\ error' = ProviderNotFound(key)
                     /\ calls' = [calls EXCEPT ![c] =
                            CallLoadBasicData(
                                [frame EXCEPT !.inCatch = TRUE,
                                              !.errorMessage = ProviderNotFound(key)])]
                ELSE /\ error' = NullError
                     /\ calls' = [calls EXCEPT ![c] = [frame EXCEPT !.pc = "getApiKey"]]
    /\ UNCHANGED <<codecVars, engineVars, fallbackVars, searchMode, language,
                   keyVars, slots>>

\* A search call issued when the slot's previous call, if any, has returned.
StartSearch(c) ==
    /\ calls[c].pc \in {"idle", "done"}
    /\ SearchFrom(c, Queries, SearchKeys, TopKs)

\* The one search call of a slot when two calls overlap: the user searches,
\* switches provider, and searches again before the first call returns.
StartOverlapping(c) ==
    /\ calls[c].pc = "idle"
    /\ c = 1 \/ calls[1].pc # "idle"    \* the second search follows the first
    /\ SearchFrom(c, OverlapQueries, OverlapKeys(c), OverlapTopKs)

\* getApiKey resolves (useHSCodeSearch.ts:36-40, 50): with a key the vector
\* search starts and calls the gateway, without one the basic data is loaded.
KeyResolved(c) ==
    /\ c \in slots
    /\ calls[c].pc = "getApiKey"
    /\ LET apiKey == GetApiKey(apiKeys, ToLowerCase(ProviderOf(c).name))
       IN  calls' = [calls EXCEPT ![c] =
               IF apiKey # {}
               THEN [calls[c] EXCEPT !.pc = "gateway", !.hasKey = TRUE,
                                     !.apiKey = apiKey]
               ELSE CallLoadBasicData(calls[c])]
    /\ UNCHANGED <<codecVars, engineVars, fallbackVars, hookVars, keyVars, slots>>

\* A search that scores the cached collection as soon as the gateway has
\* returned, without the cache check and the load.
GatewayReturnUnchecked(c) ==
    /\ c \in slots
    /\ calls[c].pc = "gateway"
    /\ \E resp \in GatewayResponses(ProviderOf(c)) :
         calls' = [calls EXCEPT ![c] =
             IF resp.kind = "throws"
             THEN [calls[c] EXCEPT !.pc = "vectorSettled",
                            !.vec = [ok |-> FALSE, error |-> GatewayError]]
             ELSE [calls[c] EXCEPT !.pc = "vectorSettled",
                            !.queryEmbedding = resp.embedding,
                            !.vec = ScoreCollection(hsCodesData, resp.embedding,
                                                    ProviderOf(c), calls[c].topK)]]
    /\ UNCHANGED <<codecVars, engineVars, fallbackVars, hookVars, keyVars, slots>>

\* generateEmbedding settles (helpers.ts:334-362): on an error search
\* rejects; with the collection cached the scoring follows at once;
\* otherwise loadPrecomputedEmbeddings starts and fetches the binary resource.
GatewayReturn(c) ==
    /\ c \in slots
    /\ calls[c].pc = "gateway"
    /\ \E resp \in GatewayResponses(ProviderOf(c)) :
         calls' = [calls EXCEPT ![c] =
             IF resp.kind = "throws"
             THEN [calls[c] EXCEPT !.pc = "vectorSettled",
                            !.vec = [ok |-> FALSE, error |-> GatewayError]]
             ELSE IF CacheMatches(ProviderOf(c), currentProvider, currentModel)
             THEN [calls[c] EXCEPT !.pc = "vectorSettled",
                            !.queryEmbedding = resp.embedding,
                            !.vec = ScoreCollection(hsCodesData, resp.embedding,
                                                    ProviderOf(c), calls[c].topK)]
             ELSE [calls[c] EXCEPT !.pc = "fetchBin",
                            !.queryEmbedding = resp.embedding,
                            !.fetched = Append(calls[c].fetched,
                                BinaryPath(ProviderOf(c).name, ProviderOf(c).model))]]
    /\ UNCHANGED <<codecVars, engineVars, fallbackVars, hookVars, keyVars, slots>>

\* The cache after loadPrecomputedEmbeddings stores a collection
\* (helpers.ts:298-300, 313-315).
StoreCollection(c, data) ==
    /\ hsCodesData' = data
    /\ currentProvider' = ProviderOf(c).name
    /\ currentModel' = ProviderOf(c).model

\* The frame of a call whose load failed: the error passes through search
\* (helpers.ts:317-320, 363-366).
LoadFailed(frame, provider) ==
    [frame EXCEPT !.pc = "vectorSettled",
                  !.vec = [ok |-> FALSE,
                           error |-> LoadError(provider.name, provider.model)]]

\* A load that has taken the provider and the model as the cached key before
\* it knows what the response holds.
AfterBinaryResponseKeyFirst(c, resp, todo) ==
    CASE todo.step = "store" ->
           /\ StoreCollection(c, todo.data)
           /\ calls' = [calls EXCEPT ![c] =
                  [calls[c] EXCEPT !.pc = "loadReturned",
                            !.binResponse = resp.kind,
                            !.body = resp.bytes]]
      [] todo.step = "fetchJson" ->
           /\ calls' = [calls EXCEPT ![c] =
                  [calls[c] EXCEPT !.pc = "fetchJson",
                            !.binResponse = resp.kind,
                            !.fetched = Append(calls[c].fetched,
                                JsonPath(ProviderOf(c).name,
                                         ProviderOf(c).model))]]
           /\ UNCHANGED engineVars
      [] todo.step = "fail" ->
           /\ calls' = [calls EXCEPT ![c] =
                  LoadFailed([calls[c] EXCEPT !.binResponse = resp.kind],
                             ProviderOf(c))]
           /\ currentProvider' = ProviderOf(c).name
           /\ currentModel' = ProviderOf(c).model
           /\ UNCHANGED hsCodesData

\* The load of call c goes on as decided on the response to fetch(binaryPath)
\* (helpers.ts:295-307, 317-320).
AfterBinaryResponse(c, resp, todo) ==
    CASE todo.step = "store" ->
           /\ StoreCollection(c, todo.data)
           /\ calls' = [calls EXCEPT ![c] =
                  [calls[c] EXCEPT !.pc = "loadReturned",
                            !.binResponse = resp.kind,
                            !.body = resp.bytes]]
      [] todo.step = "fetchJson" ->
           /\ calls' = [calls EXCEPT ![c] =
                  [calls[c] EXCEPT !.pc = "fetchJson",
                            !.binResponse = resp.kind,
                            !.fetched = Append(calls[c].fetched,
                                JsonPath(ProviderOf(c).name,
                                         ProviderOf(c).model))]]
           /\ UNCHANGED engineVars
      [] todo.step = "fail" ->
           /\ calls' = [calls EXCEPT ![c] =
                  LoadFailed([calls[c] EXCEPT !.binResponse = resp.kind],
                             ProviderOf(c))]
           /\ UNCHANGED engineVars

\* fetch(binaryPath) settles (helpers.ts:294-307).
FetchBinReturn(c) ==
    /\ c \in slots
    /\ calls[c].pc = "fetchBin"
    /\ \E resp \in FetchResponses(calls[c].fetched[Len(calls[c].fetched)]) :
         AfterBinaryResponse(c, resp, OnBinaryResponse(resp))
    /\ UNCHANGED <<codecVars, fallbackVars, hookVars, keyVars, slots>>

\* fetch(jsonPath) settles (helpers.ts:307-320).
FetchJsonReturn(c) ==
    /\ c \in slots
    /\ calls[c].pc = "fetchJson"
    /\ \E resp \in FetchResponses(calls[c].fetched[Len(calls[c].fetched)]) :
         LET todo == OnJsonResponse(resp)
         IN  IF todo.step = "store"
             THEN /\ StoreCollection(c, todo.data)
                  /\ calls' = [calls EXCEPT ![c] =
                         [calls[c] EXCEPT !.pc = "loadReturned",
                                   !.jsonResponse = resp.kind]]
             ELSE /\ calls' = [calls EXCEPT ![c] =
                         LoadFailed([calls[c] EXCEPT !.jsonResponse = resp.kind],
                                    ProviderOf(c))]
                  /\ UNCHANGED engineVars
    /\ UNCHANGED <<codecVars, fallbackVars, hookVars, keyVars, slots>>

\* A search that sorts the cached collection itself by similarity before it
\* takes the first topK records.
ScoreAfterLoadInPlace(c) ==
    /\ c \in slots
    /\ calls[c].pc = "loadReturned"
    /\ LET all == ScoreCollection(hsCodesData, calls[c].queryEmbedding,
                                  ProviderOf(c), Len(hsCodesData))
       IN  /\ hsCodesData' =
                  IF all.ok
                  THEN [i \in 1..Len(all.results) |->
                           CHOOSE d \in {hsCodesData[j] : j \in 1..Len(hsCodesData)} :
                               d.code = all.results[i].code]
                  ELSE hsCodesData
           /\ calls' = [calls EXCEPT ![c] =
                  [calls[c] EXCEPT !.pc = "vectorSettled",
                            !.binResponse = "none", !.jsonResponse = "none",
                            !.body = <<>>,
                            !.vec = IF all.ok
                                    THEN [ok |-> TRUE,
                                          results |-> SliceTo(all.results, calls[c].topK)]
                                    ELSE all]]
    /\ UNCHANGED <<codecVars, currentProvider, currentModel, fallbackVars,
                   hookVars, keyVars, slots>>

\* search resumes after the load (helpers.ts:341-362) and scores the
\* collection cached now.
ScoreAfterLoad(c) ==
    /\ c \in slots
    /\ calls[c].pc = "loadReturned"
    /\ calls' = [calls EXCEPT ![c] =
           [calls[c] EXCEPT !.pc = "vectorSettled",
                     !.binResponse = "none", !.jsonResponse = "none",
                     !.body = <<>>,
                     !.vec = ScoreCollection(hsCodesData, calls[c].queryEmbedding,
                                             ProviderOf(c), calls[c].topK)]]
    /\ UNCHANGED <<codecVars, engineVars, fallbackVars, hookVars, keyVars, slots>>

\* A hook that returns nothing when the vector search fails.
HookAfterVectorNoFallback(c) ==
    /\ c \in slots
    /\ calls[c].pc = "vectorSettled"
    /\ searchMode' = "vector"
    /\ isLoading' = FALSE
    /\ calls' = [calls EXCEPT ![c] =
           [calls[c] EXCEPT !.pc = "done",
                     !.binResponse = "none", !.jsonResponse = "none",
                     !.results = IF calls[c].vec.ok THEN calls[c].vec.results ELSE <<>>,
                     !.via = "vector"]]
    /\ UNCHANGED <<codecVars, engineVars, fallbackVars, error, language,
                   keyVars, slots>>

\* The hook resumes after vectorSearch.search (useHSCodeSearch.ts:40-50, 75):
\* it returns the results, or goes on to the basic data; the load's frame is
\* gone.
HookAfterVector(c) ==
    /\ c \in slots
    /\ calls[c].pc = "vectorSettled"
    /\ IF calls[c].vec.ok
       THEN /\ searchMode' = "vector"
            /\ isLoading' = FALSE
            /\ calls' = [calls EXCEPT ![c] =
                   [calls[c] EXCEPT !.pc = "done", !.results = calls[c].vec.results,
                             !.via = "vector"]]
       ELSE /\ calls' = [calls EXCEPT ![c] =
                   CallLoadBasicData([calls[c] EXCEPT !.binResponse = "none",
                                               !.jsonResponse = "none"])]
            /\ UNCHANGED <<searchMode, isLoading>>
    /\ UNCHANGED <<codecVars, engineVars, fallbackVars, error, language,
                   keyVars, slots>>

\* The fetch of loadBasicData settles (fallbackSearch.ts:17-28).
FallbackFetchReturn(c) ==
    /\ c \in slots
    /\ calls[c].pc = "fbFetch"
    /\ \E resp \in FetchResponses(BasicDataPath) :
         IF resp.kind = "body"
         THEN /\ fbData' = HsCodesOrEmpty(resp)
              /\ fbLoaded' = TRUE
              /\ calls' = [calls EXCEPT ![c] =
                     [calls[c] EXCEPT !.pc = "fbReturned", !.fbOk = TRUE]]
         ELSE /\ calls' = [calls EXCEPT ![c] =
                     [calls[c] EXCEPT !.pc = "fbReturned", !.fbOk = FALSE]]
              /\ UNCHANGED fallbackVars
    /\ UNCHANGED <<codecVars, engineVars, hookVars, keyVars, slots>>

\* The hook resumes after loadBasicData, in the try block
\* (useHSCodeSearch.ts:50-65, 75): it ranks and returns, or enters the catch
\* block and loads again.
HookAfterFallbackLoad(c) ==
    /\ c \in slots
    /\ calls[c].pc = "fbReturned"
    /\ ~calls[c].inCatch
    /\ IF calls[c].fbOk
       THEN LET results == FallbackRank(fbData, fbLoaded, calls[c].query, calls[c].topK)
            IN  /\ searchMode' = "fallback"
                /\ error' = IF Len(results) = 0 THEN NoResultsMessage ELSE error
                /\ isLoading' = FALSE
                /\ calls' = [calls EXCEPT ![c] =
                       [calls[c] EXCEPT !.pc = "done", !.results = results,
                                 !.via = "fallback"]]
       ELSE /\ error' = FallbackLoadError
            /\ calls' = [calls EXCEPT ![c] =
                   CallLoadBasicData([calls[c] EXCEPT !.inCatch = TRUE,
                                               !.errorMessage = FallbackLoadError])]
            /\ UNCHANGED <<searchMode, isLoading>>
    /\ UNCHANGED <<codecVars, engineVars, fallbackVars, language, keyVars, slots>>

\* The hook resumes after loadBasicData, in the catch block
\* (useHSCodeSearch.ts:65-75).
HookAfterCatchLoad(c) ==
    /\ c \in slots
    /\ calls[c].pc = "fbReturned"
    /\ calls[c].inCatch
    /\ IF calls[c].fbOk
       THEN /\ searchMode' = "fallback"
            /\ error' = error
            /\ calls' = [calls EXCEPT ![c] =
                   [calls[c] EXCEPT !.pc = "done",
                             !.results = FallbackRank(fbData, fbLoaded, calls[c].query, calls[c].topK),
                             !.via = "catch-fallback"]]
       ELSE /\ error' = BothFailedMessage(calls[c].errorMessage, FallbackLoadError)
            /\ calls' = [calls EXCEPT ![c] =
                   [calls[c] EXCEPT !.pc = "done", !.results = <<>>, !.via = "both-failed"]]
            /\ UNCHANGED searchMode
    /\ isLoading' = FALSE
    /\ UNCHANGED <<codecVars, engineVars, fallbackVars, language, keyVars, slots>>

(***************************************************************************)
(* The API keys: useEmbeddingProviders, the ApiKeyManager form that calls  *)
(* it, and the ApiKeyManager service.                                      *)
(***************************************************************************)
\* An API key a user enters: "sk-test-0001".
ValidKey == <<115, 107, 45, 116, 101, 115, 116, 45, 48, 48, 48, 49>>

\* The frame of a saveApiKey or removeApiKey call of useEmbeddingProviders.
\*   pc            "idle", "getAllKeys" (awaiting the read of the item),
\*                 "setItem" (awaiting the write), "settled" (the call of
\*                 ApiKeyManager has settled; the hook resumes) or "done"
\*   op            "save" or "remove"
\*   providerName  the providerName argument
\*   apiKey        the apiKey argument of a save
\*   keys          the map the call has read and changed
\*   ok            the call of ApiKeyManager resolved (TRUE) or rejected
\*   formKey       the provider key of the card of the form the call comes
\*                 from, "none" for a call that does not come from the form
IdleKeyOp ==
    [pc |-> "idle", op |-> "none", providerName |-> <<>>, apiKey |-> <<>>,
     keys |-> <<>>, ok |-> TRUE, formKey |-> "none"]

KeyOps == {1, 2}

\* loadProviders (useHSCodeSearch.ts:100-120): the entries as the effect
\* sets them from the stored keys.
LoadProviders(item) ==
    [k \in ProviderKeys |-> GetApiKey(item, ToLowerCase(Providers[k].name)) # {}]

\* The text of a provider key.
KeyText(k) ==
    CASE k = "openai-small" -> <<111, 112, 101, 110, 97, 105, 45, 115, 109, 97, 108, 108>>
      [] k = "openai-large" -> <<111, 112, 101, 110, 97, 105, 45, 108, 97, 114, 103, 101>>
      [] k = "cohere"       -> <<99, 111, 104, 101, 114, 101>>
      [] k = "huggingface"  -> <<104, 117, 103, 103, 105, 110, 103, 102, 97, 99, 101>>

\* The providerName arguments of direct calls of the hook: "OpenAI", "Cohere".
ProviderNames == { Providers[k].name : k \in {"openai-small", "cohere"} }

\* str.trim(), for strings without white space inside.
Trim(str) == SelectSeq(str, LAMBDA ch : ~IsSpace(ch))

\* validateApiKey(provider, apiKey) of the form (part_009:74-78).
ValidateApiKey(apiKey) == Len(Trim(apiKey)) > 10

\* saveApiKey(providerName, apiKey) or removeApiKey(providerName) of
\* useEmbeddingProviders up to the first await, in getAllKeys
\* (useHSCodeSearch.ts:122-123, 130-131; part_014:16-19, 51-53, 94-96).
StartKeyOp(o, op, providerName, apiKey, formKey) ==
    /\ keyOps[o].pc = "idle"
    /\ \A c \in Calls : calls[c].pc = "idle"
    /\ keyOps' = [keyOps EXCEPT ![o] =
           [IdleKeyOp EXCEPT !.pc = "getAllKeys", !.op = op,
                             !.providerName = providerName, !.apiKey = apiKey,
                             !.formKey = formKey]]
    /\ UNCHANGED <<codecVars, engineVars, fallbackVars, hookVars, apiKeys,
                   providers, calls, slots>>

\* A caller of the hook saves a key under a provider's name.
HookSaveApiKey(o) ==
    \E providerName \in ProviderNames, apiKey \in {ValidKey} :
        /\ apiKey # <<>>
        /\ StartKeyOp(o, "save", providerName, apiKey, "none")

\* A caller of the hook removes the key of a provider's name.
HookRemoveApiKey(o) ==
    \E providerName \in ProviderNames :
        /\ providerName # <<>>
        /\ StartKeyOp(o, "remove", providerName, <<>>, "none")

\* handleSaveKey(provider.key) of the form (part_009:26-61, 130-136), the
\* button of a card without a key: a key that passes the validation is saved
\* under the provider key of the card.  The user types "sk-test-0001",
\* "sk-test-0002" or "tooshort".
FormSaveKey(o) ==
    \E k \in ProviderKeys,
       apiKey \in { ValidKey, <<115, 107, 45, 116, 101, 115, 116, 45, 48, 48, 48, 50>>, <<116, 111, 111, 115, 104, 111, 114, 116>> } :
        /\ ~providers[k]
        /\ Trim(apiKey) # <<>>
        /\ ValidateApiKey(apiKey)
        /\ StartKeyOp(o, "save", KeyText(k), apiKey, k)

\* handleRemoveKey(provider.name.toLowerCase()) of the form (part_009:63-72,
\* 100-109), the button of a card with a key, confirmed by the user.
FormRemoveKey(o) ==
    \E k \in ProviderKeys :
        /\ providers[k]
        /\ StartKeyOp(o, "remove", ToLowerCase(Providers[k].name), <<>>, k)

\* getAllKeys resolves with the stored map (part_014:19-21, 53-55, 94-102):
\* the call changes its copy of the map and starts the write.
KeysRead(o) ==
    /\ keyOps[o].pc = "getAllKeys"
    /\ LET provider == ToLowerCase(keyOps[o].providerName)
           keys     == GetAllKeys(apiKeys)
       IN  keyOps' = [keyOps EXCEPT ![o] =
               [keyOps[o] EXCEPT
                   !.pc = "setItem",
                   !.keys = IF keyOps[o].op = "save"
                            \* keys[provider] = encrypted
                            THEN [name \in DOMAIN keys \cup {provider} |->
                                     IF name = provider
                                     THEN Encrypt(keyOps[o].apiKey)
                                     ELSE keys[name]]
                            \* delete keys[provider]
                            ELSE [name \in DOMAIN keys \ {provider} |-> keys[name]]]]
    /\ UNCHANGED <<codecVars, engineVars, fallbackVars, hookVars, apiKeys,
                   providers, calls, slots>>

\* electronStorage.setItem settles (helpers.ts:100-113; part_014:21-25,
\* 55-59): the item is written, or the write fails and the call rejects.
KeysWritten(o) ==
    /\ keyOps[o].pc = "setItem"
    /\ \E written \in BOOLEAN :
         /\ apiKeys' = IF written THEN {JsonStringify(keyOps[o].keys)} ELSE apiKeys
         /\ keyOps' = [keyOps EXCEPT ![o] =
                [keyOps[o] EXCEPT !.pc = "settled", !.ok = written]]
    /\ UNCHANGED <<codecVars, engineVars, fallbackVars, hookVars, providers,
                   calls, slots>>

\* The entries after the setProviders of saveApiKey and of removeApiKey
\* (useHSCodeSearch.ts:124-127, 132-135).
ProvidersAfter(op, providerName, prev) ==
    [k \in ProviderKeys |->
        IF op = "save"
        THEN ToLowerCase(Providers[k].name) = ToLowerCase(providerName)
        ELSE IF ToLowerCase(Providers[k].name) = ToLowerCase(providerName)
             THEN FALSE
             ELSE prev[k]]

\* The hook resumes after the call of ApiKeyManager
\* (useHSCodeSearch.ts:123-128, 131-136): it updates the entries, or the
\* call has rejected and the hook's call rejects.
KeyOpReturns(o) ==
    /\ keyOps[o].pc = "settled"
    /\ providers' = IF keyOps[o].ok
                    THEN ProvidersAfter(keyOps[o].op, keyOps[o].providerName, providers)
                    ELSE providers
    /\ keyOps' = [keyOps EXCEPT ![o] = [keyOps[o] EXCEPT !.pc = "done"]]
    /\ UNCHANGED <<codecVars, engineVars, fallbackVars, hookVars, apiKeys,
                   calls, slots>>

\* The one search after the key calls have returned: search("Live horses",
\* providerKey, 2) with a registered provider key.
StartSearchAfterKeys(c) ==
    /\ calls[c].pc = "idle"
    /\ \A o \in KeyOps : keyOps[o].pc \in {"idle", "done"}
    /\ SearchFrom(c, { <<76, 105, 118, 101, 32, 104, 111, 114, 115, 101, 115>> }, ProviderKeys, {2})

(***************************************************************************)
(* The application: search calls on one hook, one at a time (Spec) or two  *)
(* overlapping (SpecOverlap).                                              *)
(***************************************************************************)
\* The languages of the LanguageContext.
Languages == {"en", "vi"}

\* The providers, by lower-case name, that can have a stored API key.
KeyNames == { ToLowerCase(Providers[k].name) : k \in ProviderKeys \cap SearchKeys }

Init ==
    /\ CodecIdle
    /\ AppInit
    \* the language the user has chosen (LanguageContext.tsx:7, 24-34)
    /\ language \in Languages
    \* no key is stored, or one for every provider
    /\ apiKeys \in {{}, {JsonStringify([name \in KeyNames |-> Encrypt(ValidKey)])}}
    /\ providers = LoadProviders(apiKeys)
    /\ keyOps = [o \in KeyOps |-> IdleKeyOp]
    /\ calls = [c \in Calls |-> IdleFrame]
    /\ slots = {1}

Next ==
    \E c \in Calls :
        \/ StartSearch(c)
        \/ KeyResolved(c)
        \/ GatewayReturn(c)
        \/ FetchBinReturn(c)
        \/ FetchJsonReturn(c)
        \/ ScoreAfterLoad(c)
        \/ HookAfterVector(c)
        \/ FallbackFetchReturn(c)
        \/ HookAfterFallbackLoad(c)
        \/ HookAfterCatchLoad(c)

Spec == Init /\ [][Next]_vars

\* Two calls in flight on the one hook, vector search and ranker instance.
InitOverlap ==
    /\ CodecIdle
    /\ AppInit
    /\ language = "en"
    /\ apiKeys = {JsonStringify([name \in KeyNames |-> Encrypt(ValidKey)])}
    /\ providers = LoadProviders(apiKeys)
    /\ keyOps = [o \in KeyOps |-> IdleKeyOp]
    /\ calls = [c \in Calls |-> IdleFrame]
    /\ slots = Calls

NextOverlap ==
    \E c \in Calls :
        \/ StartOverlapping(c)
        \/ KeyResolved(c)
        \/ GatewayReturn(c)
        \/ FetchBinReturn(c)
        \/ FetchJsonReturn(c)
        \/ ScoreAfterLoad(c)
        \/ HookAfterVector(c)
        \/ FallbackFetchReturn(c)
        \/ HookAfterFallbackLoad(c)
        \/ HookAfterCatchLoad(c)

SpecOverlap == InitOverlap /\ [][NextOverlap]_vars

\* The settings drawer and a search: one key call in each slot, the two
\* possibly overlapping, on an empty key store, then one search.
InitKeys ==
    /\ CodecIdle
    /\ AppInit
    /\ language = "en"
    /\ apiKeys = {}
    /\ providers = LoadProviders(apiKeys)
    /\ keyOps = [o \in KeyOps |-> IdleKeyOp]
    /\ calls = [c \in Calls |-> IdleFrame]
    /\ slots = {1}

NextKeys ==
    \/ \E o \in KeyOps :
          \/ HookSaveApiKey(o)
          \/ HookRemoveApiKey(o)
          \/ FormSaveKey(o)
          \/ FormRemoveKey(o)
          \/ KeysRead(o)
          \/ KeysWritten(o)
          \/ KeyOpReturns(o)
    \/ \E c \in Calls :
          \/ StartSearchAfterKeys(c)
          \/ KeyResolved(c)
          \/ GatewayReturn(c)
          \/ FetchBinReturn(c)
          \/ FetchJsonReturn(c)
          \/ ScoreAfterLoad(c)
          \/ HookAfterVector(c)
          \/ FallbackFetchReturn(c)
          \/ HookAfterFallbackLoad(c)
          \/ HookAfterCatchLoad(c)

SpecKeys == InitKeys /\ [][NextKeys]_vars

(***************************************************************************)
(* Properties.                                                             *)
(***************************************************************************)
\* The fields of a record other than its vector.
TextFields ==
    {"code", "menu", "description", "chapter", "section", "provider", "model",
     "menu_vi", "description_vi", "keywords", "keywords_vi"}

\* C1: round trip.  Decoding the bytes embeddingsToBinary made of a non-empty
\* collection gives as many records in the same order, every field of every
\* record the same, and every vector element within float32 precision
\* (2^-24 relative) of the one encoded.
C1_RoundTrip ==
    cPc = "decoded" =>
        /\ cDecoded.ok
        /\ Len(cDecoded.embeddings) = Len(cInput)
        /\ \A i \in 1..Len(cInput) :
             LET given == cInput[i]
                 got   == cDecoded.embeddings[i]
             IN  /\ \A f \in TextFields : got[f] = given[f]
                 /\ Len(got.embedding) = Len(given.embedding)
                 /\ \A j \in 1..Len(given.embedding) :
                      Abs(got.embedding[j] - given.embedding[j]) * 16777216
                          <= Abs(given.embedding[j])

\* The message of the error the vector search of call c failed with, or ""
\* when it did not fail.
VectorErrorOf(c) == IF calls[c].vec.ok THEN "" ELSE calls[c].vec.error.msg

\* The vector search of call c has settled after scoring the cached
\* collection: the gateway returned a vector and no load failed.
HasScored(c) ==
    /\ calls[c].pc = "vectorSettled"
    /\ VectorErrorOf(c) \notin {"none", "Provider API error",
                               "Could not load embeddings for a/b"}

\* The cached collection is not empty and the query vector of call c has
\* another length than its vectors.
QueryLengthDiffers(c) ==
    /\ Len(hsCodesData) > 0
    /\ \A i \in 1..Len(hsCodesData) :
         Len(hsCodesData[i].embedding) # Len(calls[c].queryEmbedding)

\* The cached collection is not empty and its vectors, the query vector of
\* call c and the provider's declared dimension are of one length.
DimensionsMatch(c) ==
    /\ Len(hsCodesData) > 0
    /\ \A i \in 1..Len(hsCodesData) :
         Len(hsCodesData[i].embedding) = Len(calls[c].queryEmbedding)
    /\ Len(calls[c].queryEmbedding) = ProviderOf(c).dimensions

IsRanked(results, data) ==
    /\ \A i \in 1..Len(results) : \E k \in 1..Len(data) : data[k].code = results[i].code
    /\ \A i, j \in 1..Len(results) :
         i < j =>
            /\ SimCompare(results[i], results[j]) >= 0
            /\ SimCompare(results[i], results[j]) = 0 =>
                 (CHOOSE k \in 1..Len(data) : data[k].code = results[i].code)
                   < (CHOOSE k \in 1..Len(data) : data[k].code = results[j].code)

\* C3: ranking order.  The results of the vector search and of the keyword
\* search are sorted non-increasing by score, and results of equal score
\* keep the order of their records in the collection searched.
C3_RankingOrder ==
    \A c \in slots :
        /\ (calls[c].pc = "vectorSettled" /\ calls[c].vec.ok) =>
              IsRanked(calls[c].vec.results, hsCodesData)
        /\ (calls[c].pc = "done" /\ calls[c].results # <<>>) =>
              IsRanked(calls[c].results,
                       IF calls[c].results[1].source = "vector"
                       THEN hsCodesData ELSE fbData)

\* A search has returned three results or more, the first two of one score
\* and the third of a lower one.
C3_Witness ==
    \E c \in slots :
        /\ calls[c].pc = "done"
        /\ Len(calls[c].results) >= 3
        /\ calls[c].results[1].source = "vector"
        /\ SimCompare(calls[c].results[1], calls[c].results[2]) = 0
        /\ SimCompare(calls[c].results[2], calls[c].results[3]) > 0

\* C4: top-K boundary.  With a non-empty cached collection of n records of
\* matching dimension the vector search returns min(topK, n) results; a topK
\* above n gives n results and no error.
C4_TopKBoundary ==
    \A c \in slots :
        (HasScored(c) /\ DimensionsMatch(c)) =>
            /\ calls[c].vec.ok
            /\ Len(calls[c].vec.results)
                 = IF calls[c].topK < Len(hsCodesData) THEN calls[c].topK
                   ELSE Len(hsCodesData)

\* A search with a topK above the size of the cached collection has returned
\* as many results as the collection has records.
C4_Witness ==
    \E c \in slots :
        /\ HasScored(c)
        /\ DimensionsMatch(c)
        /\ calls[c].topK > Len(hsCodesData)
        /\ calls[c].vec.ok
        /\ Len(calls[c].vec.results) = Len(hsCodesData)

\* The binary resource of each registered provider, written out.
ExpectedBinaryPath(key) ==
    CASE key = "openai-small" ->
           \* "/data/openai-embeddings/text-embedding-3-small.bin"
           <<47, 100, 97, 116, 97, 47, 111, 112, 101, 110, 97, 105, 45, 101, 109, 98, 101, 100, 100, 105, 110, 103, 115, 47, 116, 101, 120, 116, 45, 101, 109, 98, 101, 100, 100, 105, 110, 103, 45, 51, 45, 115, 109, 97, 108, 108, 46, 98, 105, 110>>
      [] key = "openai-large" ->
           \* "/data/openai-embeddings/text-embedding-3-large.bin"
           <<47, 100, 97, 116, 97, 47, 111, 112, 101, 110, 97, 105, 45, 101, 109, 98, 101, 100, 100, 105, 110, 103, 115, 47, 116, 101, 120, 116, 45, 101, 109, 98, 101, 100, 100, 105, 110, 103, 45, 51, 45, 108, 97, 114, 103, 101, 46, 98, 105, 110>>
      [] key = "cohere" ->
           \* "/data/cohere-embeddings/embed-english-v3-0.bin"
           <<47, 100, 97, 116, 97, 47, 99, 111, 104, 101, 114, 101, 45, 101, 109, 98, 101, 100, 100, 105, 110, 103, 115, 47, 101, 109, 98, 101, 100, 45, 101, 110, 103, 108, 105, 115, 104, 45, 118, 51, 45, 48, 46, 98, 105, 110>>
      [] key = "huggingface" ->
           \* "/data/huggingface-embeddings/sentence-transformers/all-MiniLM-L6-v2.bin"
           <<47, 100, 97, 116, 97, 47, 104, 117, 103, 103, 105, 110, 103, 102, 97, 99, 101, 45, 101, 109, 98, 101, 100, 100, 105, 110, 103, 115, 47, 115, 101, 110, 116, 101, 110, 99, 101, 45, 116, 114, 97, 110, 115, 102, 111, 114, 109, 101, 114, 115, 47, 97, 108, 108, 45, 77, 105, 110, 105, 76, 77, 45, 76, 54, 45, 118, 50, 46, 98, 105, 110>>

\* The last five characters of a path are ".json".
IsJsonPath(path) ==
    /\ Len(path) >= 5
    /\ SubSeq(path, Len(path) - 4, Len(path)) = <<46, 106, 115, 111, 110>>

\* C5: binary preferred.  A load fetches the binary resource
\* /data/{lowercase provider}-embeddings/{model, '.' as '-'}.bin first; when
\* that fetch brings a body, no textual resource is fetched during the load,
\* and the collection cached when the load returns is the codec's decode of
\* that body.
C5_BinaryPreferred ==
    \A c \in slots :
        /\ calls[c].pc \in {"fetchBin", "fetchJson", "loadReturned"} =>
              /\ calls[c].fetched # <<>>
              /\ calls[c].fetched[1] = ExpectedBinaryPath(calls[c].providerKey)
        /\ calls[c].binResponse = "body" =>
              /\ calls[c].pc # "fetchJson"
              /\ \A i \in 1..Len(calls[c].fetched) : ~IsJsonPath(calls[c].fetched[i])
        /\ (calls[c].binResponse = "body" /\ calls[c].pc = "loadReturned") =>
              /\ BinaryToEmbeddings(calls[c].body).ok
              /\ hsCodesData = BinaryToEmbeddings(calls[c].body).embeddings

\* The load of the Cohere collection, whose model name has a dot, has
\* returned from the binary body and cached its records.
C5_Witness ==
    \E c \in slots :
        /\ calls[c].pc = "loadReturned"
        /\ calls[c].providerKey = "cohere"
        /\ calls[c].binResponse = "body"
        /\ Len(hsCodesData) > 0
        /\ Len(calls[c].fetched) = 1

\* The collections a body of the textual resource of provider p parses to.
ParsedCollections(p) ==
    { HsCodesOrEmpty(r) : r \in { x \in JsonResponses(p) : x.kind = "body" } }

\* C6: textual fallback.  When the binary fetch fails, the resource not found
\* or the transport in error, the load fetches the textual resource of the
\* same key; when that fetch brings a body, the load succeeds with the
\* records parsed from it.
C6_TextualFallback ==
    \A c \in slots :
        /\ calls[c].binResponse \in {"throws", "notok"} =>
              /\ Len(calls[c].fetched) >= 2
              /\ calls[c].fetched[2]
                   = JsonPath(ProviderOf(c).name, ProviderOf(c).model)
        /\ calls[c].jsonResponse = "body" =>
              /\ calls[c].pc = "loadReturned"
              /\ hsCodesData \in ParsedCollections(ProviderOf(c))

\* The binary and the textual fetch of the load of call c have both failed.
BothFetchesFailed(c) ==
    /\ calls[c].binResponse = "notok"
    /\ calls[c].jsonResponse \in {"throws", "notok"}

\* The message each registered provider's failed load carries, written out.
ExpectedLoadMessage(key) ==
    CASE key = "openai-small" ->
           \* "Could not load embeddings for OpenAI/text-embedding-3-small"
           <<67, 111, 117, 108, 100, 32, 110, 111, 116, 32, 108, 111, 97, 100, 32, 101, 109, 98, 101, 100, 100, 105, 110, 103, 115, 32, 102, 111, 114, 32, 79, 112, 101, 110, 65, 73, 47, 116, 101, 120, 116, 45, 101, 109, 98, 101, 100, 100, 105, 110, 103, 45, 51, 45, 115, 109, 97, 108, 108>>
      [] key = "openai-large" ->
           \* "Could not load embeddings for OpenAI/text-embedding-3-large"
           <<67, 111, 117, 108, 100, 32, 110, 111, 116, 32, 108, 111, 97, 100, 32, 101, 109, 98, 101, 100, 100, 105, 110, 103, 115, 32, 102, 111, 114, 32, 79, 112, 101, 110, 65, 73, 47, 116, 101, 120, 116, 45, 101, 109, 98, 101, 100, 100, 105, 110, 103, 45, 51, 45, 108, 97, 114, 103, 101>>
      [] key = "cohere" ->
           \* "Could not load embeddings for Cohere/embed-english-v3.0"
           <<67, 111, 117, 108, 100, 32, 110, 111, 116, 32, 108, 111, 97, 100, 32, 101, 109, 98, 101, 100, 100, 105, 110, 103, 115, 32, 102, 111, 114, 32, 67, 111, 104, 101, 114, 101, 47, 101, 109, 98, 101, 100, 45, 101, 110, 103, 108, 105, 115, 104, 45, 118, 51, 46, 48>>
      [] key = "huggingface" ->
           \* "Could not load embeddings for HuggingFace/sentence-transformers/all-MiniLM-L6-v2"
           <<67, 111, 117, 108, 100, 32, 110, 111, 116, 32, 108, 111, 97, 100, 32, 101, 109, 98, 101, 100, 100, 105, 110, 103, 115, 32, 102, 111, 114, 32, 72, 117, 103, 103, 105, 110, 103, 70, 97, 99, 101, 47, 115, 101, 110, 116, 101, 110, 99, 101, 45, 116, 114, 97, 110, 115, 102, 111, 114, 109, 101, 114, 115, 47, 97, 108, 108, 45, 77, 105, 110, 105, 76, 77, 45, 76, 54, 45, 118, 50>>

\* C7 as stated: when both fetches fail the load fails with an error whose
\* content names the .bin path and the .json path it tried.
C7_NamesBothResources ==
    \A c \in slots :
        BothFetchesFailed(c) =>
            /\ ~calls[c].vec.ok
            /\ calls[c].vec.error.msg = "Could not load embeddings for a/b"
            /\ Includes(LoadErrorMessage(calls[c].vec.error),
                        BinaryPath(ProviderOf(c).name, ProviderOf(c).model))
            /\ Includes(LoadErrorMessage(calls[c].vec.error),
                        JsonPath(ProviderOf(c).name, ProviderOf(c).model))

\* C7 amended: when both fetches fail the load fails with the error
\* 'Could not load embeddings for {provider}/{model}', which names the
\* provider and the model it was called with and neither resource path.
C7_NamesProviderAndModel ==
    \A c \in slots :
        BothFetchesFailed(c) =>
            /\ ~calls[c].vec.ok
            /\ calls[c].vec.error.msg = "Could not load embeddings for a/b"
            /\ LoadErrorMessage(calls[c].vec.error)
                 = ExpectedLoadMessage(calls[c].providerKey)
            /\ ~Includes(LoadErrorMessage(calls[c].vec.error),
                         BinaryPath(ProviderOf(c).name, ProviderOf(c).model))
            /\ ~Includes(LoadErrorMessage(calls[c].vec.error),
                         JsonPath(ProviderOf(c).name, ProviderOf(c).model))

\* A load has failed after both resources were not found.
C7_Witness ==
    \E c \in slots :
        /\ calls[c].pc = "vectorSettled"
        /\ calls[c].binResponse = "notok"
        /\ calls[c].jsonResponse = "notok"
        /\ Len(calls[c].fetched) = 2

\* The gateway returns a vector to call c in this step.
GatewayGaveVector(c) ==
    /\ calls[c].pc = "gateway"
    /\ calls'[c].pc # "gateway"
    /\ calls'[c].queryEmbedding # <<>>

\* The load of call c stores a collection in this step.
LoadStores(c) ==
    /\ calls[c].pc \in {"fetchBin", "fetchJson"}
    /\ calls'[c].pc = "loadReturned"

\* C8: single-collection cache.  With calls that do not overlap, a search
\* whose provider name and model are the key of the last successful load
\* fetches nothing and leaves the cache as it is; a search for another key
\* starts a load, and a load that succeeds leaves in the cache the new key
\* and records of the new key only.
C8_SingleCollectionCache ==
    [][\A c \in slots :
          /\ GatewayGaveVector(c) =>
                IF /\ ProviderOf(c).name = currentProvider
                   /\ ProviderOf(c).model = currentModel
                THEN /\ calls'[c].pc = "vectorSettled"
                     /\ calls'[c].fetched = calls[c].fetched
                     /\ UNCHANGED engineVars
                ELSE /\ calls'[c].pc = "fetchBin"
                     /\ Len(calls'[c].fetched) = Len(calls[c].fetched) + 1
          /\ LoadStores(c) =>
                /\ currentProvider' = ProviderOf(c).name
                /\ currentModel' = ProviderOf(c).model
                /\ \A i \in 1..Len(hsCodesData') :
                     /\ hsCodesData'[i].provider = ToLowerCase(ProviderOf(c).name)
                     /\ hsCodesData'[i].model = ProviderOf(c).model
      ]_vars

\* A search for the cached key has scored the cached collection without a
\* fetch.
C8_Witness ==
    \E c \in slots :
        /\ calls[c].pc = "vectorSettled"
        /\ calls[c].hasKey
        /\ calls[c].fetched = <<>>
        /\ calls[c].vec.ok
        /\ CacheMatches(ProviderOf(c), currentProvider, currentModel)

\* Call c resumes after its load and scores in this step.
ScoresAfterLoad(c) ==
    /\ calls[c].pc = "loadReturned"
    /\ calls'[c].pc = "vectorSettled"

ReturnedAfterVectorFailure(c) ==
    /\ calls[c].pc = "done"
    /\ calls[c].hasKey
    /\ ~calls[c].vec.ok
    /\ calls[c].vec.error.msg # "none"

\* C10 as stated: after a failure of the vector path with a stored key, the
\* keyword ranker's results for the same query and topK are returned,
\* searchMode is 'fallback', and an error is shown only when the results are
\* empty.
C10_FallbackOnVectorFailure ==
    \A c \in slots :
        ReturnedAfterVectorFailure(c) =>
            /\ calls[c].results
                 = FallbackRank(fbData, fbLoaded, calls[c].query, calls[c].topK)
            /\ searchMode = "fallback"
            /\ error # NullError => calls[c].results = <<>>

\* C10 amended: after a failure of the vector path with a stored key the
\* hook loads the basic dataset.  When that load succeeds the ranker's
\* results for the same query and topK are returned, searchMode is
\* 'fallback', and the only error shown is the no-results message for an
\* empty result.  When it fails the load error is shown and the load is
\* tried once more: if it then succeeds the ranker's results are returned
\* with searchMode 'fallback' and the load error stays shown; if it fails
\* again no results are returned and the combined error is shown.
C10_FallbackWhenDataLoads ==
    \A c \in slots :
        ReturnedAfterVectorFailure(c) =>
            IF ~calls[c].inCatch
            THEN /\ fbLoaded
                 /\ calls[c].results
                      = FallbackRank(fbData, TRUE, calls[c].query, calls[c].topK)
                 /\ searchMode = "fallback"
                 /\ error = IF calls[c].results = <<>> THEN NoResultsMessage
                            ELSE NullError
            ELSE IF calls[c].fbOk
            THEN /\ fbLoaded
                 /\ calls[c].results
                      = FallbackRank(fbData, TRUE, calls[c].query, calls[c].topK)
                 /\ searchMode = "fallback"
                 /\ error = FallbackLoadError
            ELSE /\ calls[c].results = <<>>
                 /\ error = BothFailedMessage(FallbackLoadError, FallbackLoadError)

\* A call whose vector search failed has returned keyword results, with
\* searchMode 'fallback' and no error shown.
C10_Witness ==
    \E c \in slots :
        /\ ReturnedAfterVectorFailure(c)
        /\ ~calls[c].inCatch
        /\ calls[c].results # <<>>
        /\ calls[c].results[1].source = "keyword-fallback"
        /\ searchMode = "fallback"
        /\ error = NullError

(***************************************************************************)
(* C11  Both paths failed.                                                 *)
(***************************************************************************)
\* Call c has returned after its vector search failed and the basic data
\* could not be loaded, neither in the try block nor in the catch block.
BothPathsFailed(c) ==
    /\ c \in slots
    /\ calls[c].pc = "done"
    /\ calls[c].hasKey
    /\ ~calls[c].vec.ok
    /\ calls[c].vec.error.msg # "none"
    /\ calls[c].via = "both-failed"

\* The message has the given text as one of its parts.
MessageHas(message, text) == \E i \in 1..Len(message) : message[i] = text

\* C11: when the vector search attempt fails and the fallback dataset also
\* cannot be loaded, search returns an empty list and the error message
\* contains both underlying messages: the message of the vector-path failure
\* and the message of the fallback failure.
C11_BothMessages ==
    \A c \in Calls :
        BothPathsFailed(c) =>
            /\ calls[c].results = <<>>
            /\ MessageHas(error, calls[c].vec.error.msg)
            /\ MessageHas(error, FallbackLoadError[1])

(***************************************************************************)
(* C12  Bad magic.                                                         *)
(***************************************************************************)
\* binaryToEmbeddings has returned or thrown on the damaged file.
DamagedDecoded == cPc = "decodedDamaged"

\* The buffer has four first bytes and they are not the magic constant.
MagicMismatch(buffer) ==
    /\ Len(buffer) >= 4
    /\ <<buffer[1], buffer[2], buffer[3], buffer[4]>> # <<72, 83, 67, 69>>

\* The buffer has a version field and it is not the supported version.
VersionMismatch(buffer) ==
    /\ Len(buffer) >= 8
    /\ <<buffer[5], buffer[6], buffer[7], buffer[8]>> # <<0, 0, 0, 1>>

\* C12: for every byte buffer whose first four bytes are not the format's
\* magic constant, whatever its other fields hold and wherever it ends,
\* binaryToEmbeddings fails with the format error and returns no records.
\* (A buffer of fewer than four bytes has no first four bytes: the read of
\* the magic number itself leaves the buffer, which is the truncated case.)
C12_BadMagic ==
    (DamagedDecoded /\ MagicMismatch(cBuffer)) =>
        cDecoded = [ok |-> FALSE, error |-> "Invalid binary embeddings format"]

\* A buffer with a wrong magic number, a wrong version and a cut in the
\* header has been rejected with the format error.
C12_Witness ==
    /\ DamagedDecoded
    /\ MagicMismatch(cBuffer)
    /\ VersionMismatch(cBuffer)
    /\ Len(cBuffer) = 15
    /\ ~cDecoded.ok
    /\ cDecoded.error = "Invalid binary embeddings format"

(***************************************************************************)
(* C13  Structural violations.                                             *)
(***************************************************************************)
\* The buffer holds fewer bytes than the file embeddingsToBinary wrote, whose
\* length is what the header's count and dimension and the length prefixes
\* require.
CutShort(buffer) == Len(buffer) < cEncoded.totalSize

\* binaryToEmbeddings has failed with an error of the given kind.
FailedWith(kind) == ~cDecoded.ok /\ cDecoded.error = kind

\* C13: for every byte buffer with a magic mismatch, a version other than the
\* supported one, or fewer bytes than its header's count and dimension and
\* its length prefixes require, binaryToEmbeddings fails instead of returning
\* records, and the three kinds of failure have three different error kinds.
C13_StructuralViolations ==
    DamagedDecoded =>
        /\ MagicMismatch(cBuffer) => FailedWith("Invalid binary embeddings format")
        /\ (~MagicMismatch(cBuffer) /\ VersionMismatch(cBuffer)) =>
               FailedWith("Unsupported binary format version")
        /\ (~MagicMismatch(cBuffer) /\ ~VersionMismatch(cBuffer) /\ CutShort(cBuffer)) =>
               FailedWith("RangeError")

(***************************************************************************)
(* C14  Uniform collection invariant.                                      *)
(***************************************************************************)
\* loadPrecomputedEmbeddings of call c has just resolved: it has stored a
\* collection, decoded from the binary resource or parsed from the textual one.
LoadSucceeded(c) == c \in slots /\ calls[c].pc = "loadReturned"

\* Every record has the vector length, the provider and the model of every
\* other record.
IsUniform(data) ==
    \A i, j \in 1..Len(data) :
        /\ Len(data[i].embedding) = Len(data[j].embedding)
        /\ data[i].provider = data[j].provider
        /\ data[i].model = data[j].model

\* C14: after every successful loadPrecomputedEmbeddings, through the binary
\* path or the textual path, every record of the cached collection has the
\* same vector length and carries the same provider and model as every other
\* record of that collection.
C14_UniformCollection ==
    \A c \in Calls : LoadSucceeded(c) => IsUniform(hsCodesData)

(***************************************************************************)
(* C15  Variable-length strings are never truncated.                       *)
(***************************************************************************)
\* The five string fields of a record, in the order the encoder writes them.
StringFields == <<"code", "menu", "description", "chapter", "section">>

\* The number of bytes of a code point, and of a string, in UTF-8.
CodePointBytes(cp) ==
    IF cp < 128 THEN 1 ELSE IF cp < 2048 THEN 2 ELSE IF cp < 65536 THEN 3 ELSE 4

RECURSIVE Utf8Length(_)
Utf8Length(str) ==
    IF str = <<>> THEN 0 ELSE CodePointBytes(Head(str)) + Utf8Length(Tail(str))

RECURSIVE SumSeq(_)
SumSeq(numbers) ==
    IF numbers = <<>> THEN 0 ELSE Head(numbers) + SumSeq(Tail(numbers))

\* The bytes one record takes: five prefixes of two bytes, the five strings
\* and d floats of four bytes.
RecordLength(rec, d) ==
    10 + SumSeq([k \in 1..5 |-> Utf8Length(rec[StringFields[k]])]) + 4 * d

\* Where the length prefix of the k-th string of the i-th record is written.
PrefixOffset(input, i, k) ==
    272 + SumSeq([r \in 1..(i - 1) |->
                     RecordLength(input[r], Len(input[1].embedding))])
        + SumSeq([j \in 1..(k - 1) |-> 2 + Utf8Length(input[i][StringFields[j]])])

\* The 16-bit big-endian number at a byte offset.
PrefixAt(bytes, offset) == 256 * bytes[offset + 1] + bytes[offset + 2]

\* C15: for every record and each of its five string fields (code, menu,
\* description, chapter, section) the 2-byte length prefix written by
\* embeddingsToBinary equals the field's byte length in UTF-8, and
\* binaryToEmbeddings recovers the whole string of that field and of the
\* fields that follow it.
C15_StringsNeverTruncated ==
    cPc = "decoded" =>
        /\ cDecoded.ok
        /\ Len(cDecoded.embeddings) = Len(cInput)
        /\ \A i \in 1..Len(cInput) : \A k \in 1..5 :
               /\ PrefixAt(cEncoded.bytes, PrefixOffset(cInput, i, k))
                      = Utf8Length(cInput[i][StringFields[k]])
               /\ cDecoded.embeddings[i][StringFields[k]] = cInput[i][StringFields[k]]

(***************************************************************************)
(* C16  Exact encode size.                                                 *)
(***************************************************************************)
\* embeddingsToBinary has returned or thrown on cInput.
HasEncoded == cPc \in {"encoded", "decoded", "damaged", "decodedDamaged"}

\* Every vector of the collection has the length of the first record's.
VectorsOfFirstLength(input) ==
    \A i \in 1..Len(input) : Len(input[i].embedding) = Len(input[1].embedding)

\* 272 + the sum over the records of (10 + the UTF-8 byte lengths of the
\* five strings + 4 * d).
ExpectedSize(input) ==
    272 + SumSeq([i \in 1..Len(input) |->
                     RecordLength(input[i], Len(input[1].embedding))])

\* C16: for every non-empty collection whose vectors all have the length d
\* of the first record, the size computed up front by embeddingsToBinary is
\* 272 + the sum over the records of (10 + the byte lengths of the five
\* strings + 4 * d) and equals the final write offset, and the returned
\* buffer has exactly that length.
C16_ExactEncodeSize ==
    (HasEncoded /\ cInput # <<>> /\ VectorsOfFirstLength(cInput)) =>
        /\ cEncoded.ok
        /\ cEncoded.totalSize = ExpectedSize(cInput)
        /\ cEncoded.offset = cEncoded.totalSize
        /\ Len(cEncoded.bytes) = cEncoded.totalSize

\* Two records with vectors of length 2, the second with the description "é"
\* of two bytes, have been encoded in 272 + 29 + 31 bytes.
C16_Witness ==
    /\ cPc = "encoded"
    /\ Len(cInput) = 2
    /\ Len(cInput[1].embedding) = 2
    /\ cInput[1].code = <<48, 49>>
    /\ cInput[2].description = <<233>>
    /\ cEncoded.ok
    /\ cEncoded.offset = 332
    /\ Len(cEncoded.bytes) = 332

(***************************************************************************)
(* C17  Fixed-width truncation is contained.                               *)
(***************************************************************************)
\* The metadata with the short strings "openai" and "text-embedding-3-small".
ShortMetadata == [provider |-> StrOpenaiLower, model |-> StrModelSmall]

\* The n bytes of a header field that holds a string of the given UTF-8
\* bytes: the bytes, cut after n of them or followed by zero bytes.
FieldOfWidth(encoded, n) ==
    [i \in 1..n |-> IF i <= Len(encoded) THEN encoded[i] ELSE 0]

\* The bytes from byte 272 on.
RecordsPart(bytes) == SubSeq(bytes, 273, Len(bytes))

\* A record without its provider and model.
Untagged(rec) ==
    [code |-> rec.code, menu |-> rec.menu, description |-> rec.description,
     chapter |-> rec.chapter, section |-> rec.section, embedding |-> rec.embedding]

\* The records, without provider and model, that binaryToEmbeddings returns.
UntaggedRecords(decoded) ==
    IF decoded.ok
    THEN [i \in 1..Len(decoded.embeddings) |-> Untagged(decoded.embeddings[i])]
    ELSE <<>>

\* What comes back of the collection when it is encoded with the metadata
\* and decoded.
ThroughCodec(input, metadata) ==
    UntaggedRecords(BinaryToEmbeddings(EmbeddingsToBinary(input, metadata).bytes))

\* C17: for provider and model strings of any byte length embeddingsToBinary
\* writes exactly 128 bytes for each, zero-padded or truncated: the provider
\* field is bytes 16..143, the model field starts at byte 144, the first
\* record at byte 272 and the records' bytes are those written with a short
\* provider and model; the records decoded are, but for their provider and
\* model, those decoded with a short provider and model.
C17_FixedWidthHeader ==
    cPc \in {"encoded", "decoded"} =>
        /\ cEncoded.ok
        /\ SubSeq(cEncoded.bytes, 17, 144)
             = FieldOfWidth(TextEncode(cMeta.provider), 128)
        /\ SubSeq(cEncoded.bytes, 145, 272)
             = FieldOfWidth(TextEncode(cMeta.model), 128)
        /\ PrefixAt(cEncoded.bytes, 272) = Utf8Length(cInput[1].code)
        /\ RecordsPart(cEncoded.bytes)
             = RecordsPart(EmbeddingsToBinary(cInput, ShortMetadata).bytes)
        /\ cPc = "decoded" =>
               /\ cDecoded.ok
               /\ UntaggedRecords(cDecoded) = ThroughCodec(cInput, ShortMetadata)

\* A collection encoded with a provider of 130 bytes has been decoded: the
\* header's provider is the first 128 bytes and the records are there.
C17_Witness ==
    /\ cPc = "decoded"
    /\ Len(TextEncode(cMeta.provider)) = 130
    /\ cDecoded.ok
    /\ Len(cDecoded.embeddings) = 2
    /\ cDecoded.header.provider = [i \in 1..128 |-> 97]
    /\ cDecoded.header.model = StrModelCohere
    /\ cDecoded.embeddings[2].code = <<48, 49>>

(***************************************************************************)
(* C18  Zero vector.                                                       *)
(***************************************************************************)
\* Every component is 0: the vector has magnitude zero.
IsZeroVector(v) == \A j \in 1..Len(v) : v[j] = 0

\* The vector search of call c has returned scored results.
VectorScored(c) ==
    /\ c \in slots
    /\ calls[c].pc \in {"vectorSettled", "done"}
    /\ calls[c].vec.ok

\* C18: cosineSimilarity returns exactly 0 (here the value 0 / sqrt(1), never
\* 0 / 0) whenever the query vector or the stored vector, of the same length,
\* has zero magnitude.
C18_ZeroVector ==
    \A c \in Calls :
        VectorScored(c) =>
            \A i \in 1..Len(calls[c].vec.results) :
                (IsZeroVector(calls[c].queryEmbedding)
                   \/ IsZeroVector(calls[c].vec.results[i].embedding)) =>
                    calls[c].vec.results[i].similarity = [num |-> 0, den2 |-> 1]

\* A search with a query vector that is not zero has scored a stored zero
\* vector 0 and ranked it after a record of positive similarity.
C18_Witness ==
    \E c \in Calls :
        /\ VectorScored(c)
        /\ ~IsZeroVector(calls[c].queryEmbedding)
        /\ Len(calls[c].vec.results) = 2
        /\ calls[c].vec.results[1].similarity.num > 0
        /\ IsZeroVector(calls[c].vec.results[2].embedding)
        /\ calls[c].vec.results[2].similarity = [num |-> 0, den2 |-> 1]

(***************************************************************************)
(* C19  Short-token query.                                                 *)
(***************************************************************************)
\* Call c has returned what FallbackSearch.search gave it on the loaded
\* fallback dataset.
ReturnedFromRanker(c) ==
    /\ c \in slots
    /\ calls[c].pc = "done"
    /\ calls[c].via \in {"fallback", "catch-fallback"}
    /\ fbLoaded

\* C19: FallbackSearch.search called with the query "a an the" returns an
\* empty result list, without error, for every loaded fallback dataset.
C19_ShortTokenQuery ==
    \A c \in Calls :
        (ReturnedFromRanker(c) /\ calls[c].query = <<97, 32, 97, 110, 32, 116, 104, 101>>) =>
            calls[c].results = <<>>

(***************************************************************************)
(* C20  Keyword score.                                                     *)
(***************************************************************************)
\* The query tokens found in the blob, in their order.
TokensFound(tokens, blob) == SelectSeq(tokens, LAMBDA token : Includes(blob, token))

\* Len(blob) * the sum over the tokens found of min(10 * tokenLength /
\* blobLength, 1).
WeightTimesLength(found, blob) ==
    SumSeq([i \in 1..Len(found) |->
               IF 10 * Len(found[i]) <= Len(blob) THEN 10 * Len(found[i])
               ELSE Len(blob)])

\* The fraction `score` equals (sum of the weights) * (tokens found / tokens),
\* clamped to at most 1.
IsKeywordScore(score, tokens, blob) ==
    LET found == TokensFound(tokens, blob)
        top   == WeightTimesLength(found, blob) * Len(found)
        below == Len(blob) * Len(tokens)
    IN  /\ score.den > 0
        /\ IF top >= below THEN score.num = score.den
           ELSE score.num * below = top * score.den

\* The keyword search of call c has ranked the loaded dataset for a query
\* with at least one token.
KeywordRanked(c) ==
    /\ ReturnedFromRanker(c)
    /\ QueryWords(calls[c].query) # <<>>

\* C20: for every record and every non-empty token list, calculateKeywordScore
\* equals (the sum over the query tokens found in the record's search blob of
\* min(10 * tokenLength / blobLength, 1)) * (number of tokens found / number
\* of query tokens), clamped to at most 1; every score lies in [0, 1], a
\* record matching no token scores 0, and the results returned carry that
\* score.
C20_KeywordScore ==
    \A c \in Calls :
        KeywordRanked(c) =>
            /\ \A i \in 1..Len(fbData) :
                   /\ IsKeywordScore(
                          CalculateKeywordScore(QueryWords(calls[c].query), fbData[i]),
                          QueryWords(calls[c].query), SearchText(fbData[i]))
                   /\ CalculateKeywordScore(QueryWords(calls[c].query), fbData[i]).num >= 0
                   /\ CalculateKeywordScore(QueryWords(calls[c].query), fbData[i]).num
                        <= CalculateKeywordScore(QueryWords(calls[c].query), fbData[i]).den
                   /\ TokensFound(QueryWords(calls[c].query), SearchText(fbData[i])) = <<>>
                        => CalculateKeywordScore(QueryWords(calls[c].query), fbData[i]).num = 0
            /\ \A r \in 1..Len(calls[c].results) :
                   \E i \in 1..Len(fbData) :
                       /\ calls[c].results[r].code = fbData[i].code
                       /\ IsKeywordScore(calls[c].results[r].similarity,
                                         QueryWords(calls[c].query), SearchText(fbData[i]))

\* "Live horses" has been ranked on the basic dataset: "Live horses horse
\* pony" scores 1; "Live bovine animals" and "Other live animals", which hold
\* one of the two tokens, score 1 * 1/2; the 60 characters of "Live poultry:
\* fowls, ducks, geese, turkeys and guinea fowls " score 40/60 * 1/2.
C20_Witness ==
    \E c \in Calls :
        /\ KeywordRanked(c)
        /\ calls[c].query = <<76, 105, 118, 101, 32, 104, 111, 114, 115, 101, 115>>
        /\ Len(calls[c].results) = 4
        /\ calls[c].results[1].code = <<48, 49, 48, 49>>
        /\ calls[c].results[1].similarity = [num |-> 1, den |-> 1]
        /\ calls[c].results[2].code = <<48, 49, 48, 50>>
        /\ 2 * calls[c].results[2].similarity.num = calls[c].results[2].similarity.den
        /\ calls[c].results[3].code = <<48, 49, 48, 54>>
        /\ 2 * calls[c].results[3].similarity.num = calls[c].results[3].similarity.den
        /\ calls[c].results[4].code = <<48, 49, 48, 53>>
        /\ 3 * calls[c].results[4].similarity.num = calls[c].results[4].similarity.den
(***************************************************************************)
(* C21  Language selection.                                                *)
(***************************************************************************)
\* The search blob of a record under a language: under "vi" the Vietnamese
\* description and keywords where the record has them, the non-alt field
\* where it has not.
BlobIn(hsCode, lang) ==
    LET description == IF lang = "vi" /\ hsCode.description_vi # {}
                       THEN CHOOSE d \in hsCode.description_vi : TRUE
                       ELSE hsCode.description
        keywords    == IF lang = "vi" /\ hsCode.keywords_vi # {}
                       THEN hsCode.keywords_vi
                       ELSE hsCode.keywords
        joined      == IF keywords = {} THEN <<>>
                       ELSE JoinWithSpace(CHOOSE k \in keywords : TRUE)
    IN  ToLowerCase(description \o <<32>> \o joined)

\* Every query token occurs in the blob.
AllTokensIn(tokens, blob) ==
    \A i \in 1..Len(tokens) : Includes(blob, tokens[i])

\* The record is among the results of call c, or topK other records are.
Matched(c, hsCode) ==
    \/ Len(calls[c].results) = calls[c].topK
    \/ \E r \in 1..Len(calls[c].results) : calls[c].results[r].code = hsCode.code

\* C21: when the fallback search runs under "vi", a record whose blob under
\* "vi" (its description_vi and keywords_vi where it has them, its description
\* and keywords where it has not) holds every token of the query is matched.
C21_AltLanguage ==
    \A c \in Calls :
        (KeywordRanked(c) /\ language = "vi") =>
            \A i \in 1..Len(fbData) :
                AllTokensIn(QueryWords(calls[c].query), BlobIn(fbData[i], "vi"))
                    => Matched(c, fbData[i])
(***************************************************************************)
(* C22  Never a blank screen.                                              *)
(***************************************************************************)
\* Call c, made with topK >= 1, has completed with an empty result list.
ReturnedNothing(c) ==
    /\ c \in slots
    /\ calls[c].pc = "done"
    /\ calls[c].topK >= 1
    /\ calls[c].results = <<>>

\* C22: whenever a search call with topK >= 1 that no other search overlaps
\* completes with an empty result list, the error state of the hook is not
\* null at completion.
C22_NeverBlank ==
    \A c \in Calls : ReturnedNothing(c) => error # NullError

\* The ranker has found nothing for a query with a token, in the try block
\* of the hook, and the hook shows the "No results found" message.
C22_Witness ==
    \E c \in Calls :
        /\ ReturnedNothing(c)
        /\ calls[c].via = "fallback"
        /\ QueryWords(calls[c].query) # <<>>
        /\ fbData # <<>>
        /\ error = NoResultsMessage
(***************************************************************************)
(* C23  Fallback dataset fetched once.                                     *)
(***************************************************************************)
\* In this step the fetch of call c's loadBasicData brings the dataset.
FetchSucceeds(c) ==
    /\ calls[c].pc = "fbFetch"
    /\ calls'[c].pc = "fbReturned"
    /\ calls'[c].fbOk

\* In this step a loadBasicData call of call c starts a fetch.
FetchStarts(c) ==
    /\ calls'[c].pc = "fbFetch"
    /\ Len(calls'[c].fetched) > Len(calls[c].fetched) \/ calls[c].pc = "done"

\* No loadBasicData call issued after a successful load performs a fetch.
C23_NoFetchAfterLoad ==
    [][\A c \in Calls : FetchStarts(c) => ~fbLoaded]_vars

\* C23: over any sequence of loadBasicData calls on one FallbackSearch,
\* overlapping ones included, the basic dataset is fetched successfully at
\* most once: no fetch brings the dataset when it is loaded already.
C23_FetchedOnce ==
    [][\A c \in Calls : FetchSucceeds(c) => ~fbLoaded]_vars
(***************************************************************************)
(* C24  Ordering within one search request.                                *)
(***************************************************************************)
\* The vectors the gateway of call c's provider can have returned.
GatewayVectors(c) ==
    { resp.embedding : resp \in { r \in GatewayResponses(ProviderOf(c)) : r.kind = "vector" } }

\* In this step ClientVectorSearch.search of call c passes its cache check
\* and load and reaches the scoring (helpers.ts:341-362): it settles with
\* something else than the gateway's or the load's error.
ScoringStarts(c) ==
    /\ c \in slots
    /\ calls[c].pc # "vectorSettled"
    /\ calls'[c].pc = "vectorSettled"
    /\ calls'[c].vec.ok
         \/ calls'[c].vec.error.msg \notin {GatewayError.msg, LoadError(<<>>, <<>>).msg}

\* C24: in ClientVectorSearch.search the gateway call has completed before
\* the scoring starts, and so have the cache check and the load it led to:
\* scoring starts either when the gateway returns a vector and the cache check
\* finds the collection of this provider and model cached, or when the load
\* this request started has stored a collection; the outcome is the scoring
\* of the cached collection with the vector the gateway returned.
C24_OrderWithinSearch ==
    [][\A c \in Calls :
          ScoringStarts(c) =>
              /\ calls'[c].queryEmbedding \in GatewayVectors(c)
              /\ \/ /\ calls[c].pc = "gateway"
                    /\ CacheMatches(ProviderOf(c), currentProvider, currentModel)
                 \/ /\ calls[c].pc = "loadReturned"
                    /\ calls[c].queryEmbedding = calls'[c].queryEmbedding
                    /\ "body" \in {calls[c].binResponse, calls[c].jsonResponse}
              /\ calls'[c].vec = ScoreCollection(hsCodesData, calls'[c].queryEmbedding,
                                                 ProviderOf(c), calls[c].topK)]_vars

\* A search has scored the cached collection with the gateway's vector and
\* without a load: an earlier search had loaded the collection.
C24_Witness ==
    \E c \in Calls :
        /\ c \in slots
        /\ calls[c].pc = "vectorSettled"
        /\ calls[c].vec.ok
        /\ calls[c].vec.results # <<>>
        /\ calls[c].fetched = <<>>
        /\ calls[c].queryEmbedding \in GatewayVectors(c)
(***************************************************************************)
(* C25  The collection is never mutated in place.                          *)
(***************************************************************************)
\* In this step the load of call c stores a collection.
LoadStoresNow(c) ==
    /\ c \in slots
    /\ calls[c].pc \in {"fetchBin", "fetchJson"}
    /\ calls'[c].pc = "loadReturned"

\* In this step ClientVectorSearch.search of call c goes on from an await to
\* its end: it scores, or it rejects.
SearchRuns(c) ==
    /\ c \in slots
    /\ calls[c].pc \in {"gateway", "loadReturned"}
    /\ calls'[c].pc = "vectorSettled"

\* C25: ClientVectorSearch.search leaves the cached collection as it is (the
\* same records in the same order with the same field values) whatever the
\* query and topK; the cached collection changes only when a successful load
\* replaces it as a whole.
C25_NeverMutatedInPlace ==
    [][/\ \A c \in Calls : SearchRuns(c) => hsCodesData' = hsCodesData
       /\ hsCodesData' # hsCodesData => \E c \in Calls : LoadStoresNow(c)]_vars

\* A search has ranked the cached collection in another order than the stored
\* one, and the cached collection is still in the stored order.
C25_Witness ==
    \E c \in Calls :
        /\ c \in slots
        /\ calls[c].pc = "vectorSettled"
        /\ calls[c].vec.ok
        /\ Len(calls[c].vec.results) >= 2
        /\ calls[c].vec.results[2].code # hsCodesData[2].code
        /\ hsCodesData = GoodCollection(ProviderOf(c))
(***************************************************************************)
(* C26  A failed load keeps the cache.                                     *)
(***************************************************************************)
\* In this step the load of call c fails: a fetch fails, the textual body
\* does not parse, or the binary body does not decode.
LoadFailsNow(c) ==
    /\ c \in slots
    /\ calls[c].pc \in {"fetchBin", "fetchJson"}
    /\ calls'[c].pc = "vectorSettled"

\* The cached records carry the provider and the model of the cached key.
RecordsOfCachedKey ==
    \A i \in 1..Len(hsCodesData) :
        /\ hsCodesData[i].provider = ToLowerCase(currentProvider)
        /\ hsCodesData[i].model = currentModel

\* C26: when loadPrecomputedEmbeddings fails, the cached collection and the
\* cached provider and model are what they were before the call, so that the
\* cached records always belong to the cached key and the cache check of a
\* later search for the failed key leads to the load again.
C26_FailedLoadKeepsCache ==
    [][/\ \A c \in Calls :
              LoadFailsNow(c) =>
                  /\ UNCHANGED engineVars
                  /\ ~CacheMatches(ProviderOf(c), currentProvider', currentModel')
       /\ RecordsOfCachedKey']_vars

\* The load of a search has failed while the collection of another provider
\* is cached.
C26_Witness ==
    \E c \in Calls :
        /\ c \in slots
        /\ calls[c].pc = "vectorSettled"
        /\ ~calls[c].vec.ok
        /\ calls[c].vec.error.msg = LoadError(<<>>, <<>>).msg
        /\ hsCodesData # <<>>
        /\ currentProvider # ProviderOf(c).name
        /\ RecordsOfCachedKey
(***************************************************************************)
(* C27  Loading flag.                                                      *)
(***************************************************************************)
\* Call c is in flight: search has been called and has not returned.
InFlight(c) ==
    /\ c \in slots
    /\ calls[c].pc \notin {"idle", "done"}

\* C27: isLoading is true whenever at least one search call is in flight,
\* two overlapping calls included, and false once the last call in flight has
\* completed.
C27_LoadingFlag ==
    isLoading <=> \E c \in Calls : InFlight(c)
(***************************************************************************)
(* C28  Saving an API key has a local effect on the provider list.         *)
(***************************************************************************)
\* In this step the saveApiKey or removeApiKey call o of the hook completes.
KeyOpCompletes(o) ==
    /\ keyOps[o].pc = "settled"
    /\ keyOps[o].ok
    /\ keyOps'[o].pc = "done"

\* The entry of provider key k is an entry of the provider the call o names.
EntryOf(k, o) ==
    ToLowerCase(Providers[k].name) = ToLowerCase(keyOps[o].providerName)

\* C28: after saveApiKey(p, key) of useEmbeddingProviders has completed, the
\* entry of provider p has hasApiKey = true and the hasApiKey of every other
\* entry is what it was; after removeApiKey(p) only p's entry becomes false.
C28_LocalEffect ==
    [][\A o \in KeyOps :
          KeyOpCompletes(o) =>
              \A k \in ProviderKeys :
                  IF EntryOf(k, o)
                  THEN providers'[k] = (keyOps[o].op = "save")
                  ELSE providers'[k] = providers[k]]_vars

\* The part of C28 about removeApiKey: only the entries of p become false.
C28_RemoveIsLocal ==
    [][\A o \in KeyOps :
          (KeyOpCompletes(o) /\ keyOps[o].op = "remove") =>
              \A k \in ProviderKeys :
                  IF EntryOf(k, o) THEN ~providers'[k]
                  ELSE providers'[k] = providers[k]]_vars
(***************************************************************************)
(* C29  A saved key is the key a search uses.                              *)
(***************************************************************************)
\* getApiKey of the search call c has resolved.
KeyLookedUp(c) ==
    /\ c \in slots
    /\ calls[c].pc \notin {"idle", "getApiKey"}

\* The call o came from the card of provider key k of the form, and has
\* completed.
FormCallDone(o, op, k) ==
    /\ keyOps[o].pc = "done"
    /\ keyOps[o].ok
    /\ keyOps[o].op = op
    /\ keyOps[o].formKey = k

\* What C29 asks of a search with the provider key k that follows the calls of
\* the form: after a save alone the search has the saved key and takes the
\* vector path, after a save and a remove it skips the vector path.
SearchUsesFormKey(c, k) ==
    \A o \in KeyOps :
        FormCallDone(o, "save", k) =>
            /\ (\A other \in KeyOps \ {o} : keyOps[other].pc = "idle")
                   => /\ calls[c].hasKey
                      /\ calls[c].apiKey = {keyOps[o].apiKey}
            /\ (\E other \in KeyOps \ {o} : FormCallDone(other, "remove", k))
                   => ~calls[c].hasKey

\* C29: for every registered provider key K, after the API-key form has saved
\* a key for K, a later search(query, K) gets that key from ApiKeyManager and
\* takes the vector path; after the form has removed the key, the search
\* skips the vector path.
C29_SavedKeyIsUsed ==
    \A c \in Calls :
        KeyLookedUp(c) => SearchUsesFormKey(c, calls[c].providerKey)

\* The same for the provider keys that equal their provider's name in lower
\* case: "cohere" and "huggingface".
C29_WhenKeyIsName ==
    \A c \in Calls :
        (/\ KeyLookedUp(c)
         /\ KeyText(calls[c].providerKey) = ToLowerCase(ProviderOf(c).name))
            => SearchUsesFormKey(c, calls[c].providerKey)
\* A search with "cohere" has followed a save and a remove made in the card
\* of "cohere".
C29_FormRemoveReached ==
    \E c \in Calls :
        /\ KeyLookedUp(c)
        /\ \E o1, o2 \in KeyOps :
               FormCallDone(o1, "save", "cohere") /\ FormCallDone(o2, "remove", "cohere")

(***************************************************************************)
(* C30  No lost update in the key store.                                   *)
(***************************************************************************)
\* The call o of ApiKeyManager has completed.
ManagerCallDone(o) ==
    /\ keyOps[o].pc \in {"settled", "done"}
    /\ keyOps[o].ok

\* The stored map holds the effect of call o: the key it saved, or no key of
\* the provider it removed.
EffectStored(o) ==
    LET provider == ToLowerCase(keyOps[o].providerName)
    IN  IF keyOps[o].op = "save"
        THEN GetApiKey(apiKeys, provider) = {keyOps[o].apiKey}
        ELSE provider \notin DOMAIN GetAllKeys(apiKeys)

\* C30: when two calls of ApiKeyManager.saveApiKey (or a saveApiKey and a
\* removeApiKey) for different providers have both completed, overlapping or
\* not, the stored key map holds the effect of both.
C30_NoLostUpdate ==
    \A o1, o2 \in KeyOps :
        (/\ o1 # o2
         /\ ManagerCallDone(o1)
         /\ ManagerCallDone(o2)
         /\ ToLowerCase(keyOps[o1].providerName) # ToLowerCase(keyOps[o2].providerName))
            => EffectStored(o1) /\ EffectStored(o2)

====
